---- MODULE Spec2Model ----
(***************************************************************************)
(* A model of microsoft/source_parser: the per-language schema extractors  *)
(* (source_parser/parsers), the token normalizer (source_parser/tree_sitter)*)
(* and the repository observer that drives them (source_parser/cli).       *)
(*                                                                         *)
(* Text is a sequence of atoms.  An atom is one token text ("def", "A"),   *)
(* one space " " or one newline "\n"; byte offsets and columns count atoms.*)
(* A concrete syntax tree is a nested record; the tree_sitter parser is    *)
(* external to the repository and is represented by Layout, which assigns  *)
(* byte offsets and points to an outline of the file.                      *)
(***************************************************************************)
EXTENDS Integers, Sequences, FiniteSets, TLC

VARIABLES
    parser,      \* the LanguageParser instance: lang, file_bytes, tree, auxiliary maps
    pc,          \* position of the running specification
    out,         \* the value produced by the last operation; in notify, error_msgs
    prev,        \* the value produced by the operation before it
    files,       \* RepoContextObserver.notify: repo_data["files"], in iteration order
    idx,         \* RepoContextObserver.notify: index of the file being processed
    statistics,  \* RepoContextObserver.notify: the statistics counters
    results,     \* RepoContextObserver.notify: the results list
    log,         \* notify: per processed file, what happened to it (observation only)
    norm,        \* normalize: the local variables of one call
    literal_count, \* LiteralCount: the instances that merge the counted literals
    method,      \* RubyParser._parse_method_node: the local variables of one call
    dispatch     \* PipelineDispatch: its task list, its queue and what it yielded

vars ==
    <<parser, pc, out, prev, files, idx, statistics, results, log, norm,
      literal_count, method, dispatch>>

-----------------------------------------------------------------------------
(* Bounds of the model *)

\* top-level items of a generated source file
MaxItems == 2
\* files of a repository handed to notify
MaxFiles == 2
\* top-level nodes of a piece of code handed to the normalizer
MaxTokens == 4
\* the largest keep_num handed to LiteralCount.prune
MaxKeep == 2
\* tasks handed to PipelineDispatch
MaxTasks == 3
\* the largest num_workers handed to PipelineDispatch.warmup
MaxWorkers == 3

-----------------------------------------------------------------------------
(* Text helpers: Python str operations on sequences of atoms *)

NoneNode == <<>>

IsWs(a) == a \in {" ", "\n"}

Spaces(n) == [i \in 1..n |-> " "]

RECURSIVE LStrip(_)
LStrip(s) == IF s # <<>> /\ IsWs(Head(s)) THEN LStrip(Tail(s)) ELSE s

RECURSIVE RStrip(_)
RStrip(s) ==
    IF s # <<>> /\ IsWs(s[Len(s)]) THEN RStrip(SubSeq(s, 1, Len(s) - 1)) ELSE s

\* str.strip()
Strip(s) == LStrip(RStrip(s))

\* str.startswith(p)
StartsWith(s, p) == Len(s) >= Len(p) /\ SubSeq(s, 1, Len(p)) = p

\* "\n".join(parts)
RECURSIVE JoinLines(_)
JoinLines(parts) ==
    IF parts = <<>> THEN <<>>
    ELSE IF Len(parts) = 1 THEN parts[1]
    ELSE parts[1] \o <<"\n">> \o JoinLines(Tail(parts))

\* list.index(x): 0 when x is absent (Python raises ValueError), else the
\* 1-based position of the first occurrence
RECURSIVE IndexFrom(_, _, _)
IndexFrom(s, x, i) ==
    IF i > Len(s) THEN 0 ELSE IF s[i] = x THEN i ELSE IndexFrom(s, x, i + 1)

IndexOf(s, x) == IndexFrom(s, x, 1)

Range(s) == {s[i] : i \in DOMAIN s}

RECURSIVE Flatten(_)
Flatten(ss) == IF ss = <<>> THEN <<>> ELSE Head(ss) \o Flatten(Tail(ss))

-----------------------------------------------------------------------------
(* Outcomes: a Python call returns a value or raises *)

Ok(v) == [exc |-> "", val |-> v]
Raise(e) == [exc |-> e, val |-> <<>>]
Raised(r) == r.exc # ""

\* [f(x) for x in xs] where f may raise: the first exception ends the
\* comprehension
RECURSIVE FirstExc(_)
FirstExc(rs) ==
    IF rs = <<>> THEN ""
    ELSE IF Raised(Head(rs)) THEN Head(rs).exc ELSE FirstExc(Tail(rs))

Collect(rs) ==
    IF FirstExc(rs) # "" THEN Raise(FirstExc(rs))
    ELSE Ok([i \in DOMAIN rs |-> rs[i].val])

-----------------------------------------------------------------------------
(* The concrete syntax tree (the external tree_sitter parser) *)

\* outline of a leaf token: its text and the white space written before it
Leaf(type, text, nl, sp) ==
    [type |-> type, text |-> text, nl |-> nl, sp |-> sp, fld |-> "",
     kids |-> <<>>, missing |-> FALSE, deep |-> FALSE]

\* a leaf on the same line, after one space / without a gap / on a new line
Tk(type, text) == Leaf(type, <<text>>, FALSE, 1)
Tk0(type, text) == Leaf(type, <<text>>, FALSE, 0)
TkNl(type, text, ind) == Leaf(type, <<text>>, TRUE, ind)

\* outline of an inner node
Node(type, kids) ==
    [type |-> type, text |-> <<>>, nl |-> FALSE, sp |-> 0, fld |-> "",
     kids |-> kids, missing |-> FALSE, deep |-> FALSE]

\* a child reachable as child_by_field_name(name)
Fld(name, o) == [o EXCEPT !.fld = name]

\* a zero-width MISSING token inserted by the parser's error recovery
Missing(type) ==
    [Leaf(type, <<>>, FALSE, 0) EXCEPT !.missing = TRUE]

\* a subtree nested deeper than the interpreter's recursion limit
Deep(o) == [o EXCEPT !.deep = TRUE]

RECURSIVE LayoutNode(_, _, _, _), LayoutKids(_, _, _, _, _)
LayoutNode(o, st, path, ptype) ==
    IF o.kids = <<>> THEN
        LET ws == IF o.nl THEN <<"\n">> \o Spaces(o.sp) ELSE Spaces(o.sp)
            row == IF o.nl THEN st.row + 1 ELSE st.row
            col == IF o.nl THEN o.sp ELSE st.col + o.sp
            sb == Len(st.bytes) + Len(ws)
        IN [node |-> [type |-> o.type, fld |-> o.fld, id |-> path,
                      ptype |-> ptype, sb |-> sb, eb |-> sb + Len(o.text),
                      srow |-> row, scol |-> col,
                      erow |-> row, ecol |-> col + Len(o.text),
                      kids |-> <<>>, missing |-> o.missing, deep |-> o.deep],
            st |-> [bytes |-> st.bytes \o ws \o o.text, row |-> row,
                    col |-> col + Len(o.text)]]
    ELSE
        LET r == LayoutKids(o.kids, 1, st, path, o.type)
            first == r.kids[1]
            last == r.kids[Len(r.kids)]
        IN [node |-> [type |-> o.type, fld |-> o.fld, id |-> path,
                      ptype |-> ptype, sb |-> first.sb, eb |-> last.eb,
                      srow |-> first.srow, scol |-> first.scol,
                      erow |-> last.erow, ecol |-> last.ecol,
                      kids |-> r.kids, missing |-> FALSE, deep |-> o.deep],
            st |-> r.st]

LayoutKids(os, i, st, path, ptype) ==
    IF i > Len(os) THEN [kids |-> <<>>, st |-> st]
    ELSE LET a == LayoutNode(os[i], st, Append(path, i), ptype)
             b == LayoutKids(os, i + 1, a.st, path, ptype)
         IN [kids |-> <<a.node>> \o b.kids, st |-> b.st]

\* parser.parse(file_bytes): the file text and its tree
Layout(rootType, items) ==
    IF items = <<>> THEN
        [bytes |-> <<>>,
         tree |-> [type |-> rootType, fld |-> "", id |-> <<>>, ptype |-> "",
                   sb |-> 0, eb |-> 0, srow |-> 0, scol |-> 0, erow |-> 0,
                   ecol |-> 0, kids |-> <<>>, missing |-> FALSE,
                   deep |-> FALSE]]
    ELSE LET r == LayoutNode(Node(rootType, items),
                             [bytes |-> <<>>, row |-> 0, col |-> 0], <<>>, "")
         IN [bytes |-> r.st.bytes, tree |-> r.node]

\* node.child_by_field_name(name)
child_by_field_name(node, name) ==
    LET i == IndexOf([k \in DOMAIN node.kids |-> node.kids[k].fld], name)
    IN IF i = 0 THEN NoneNode ELSE node.kids[i]

Types(nodes) == [i \in DOMAIN nodes |-> nodes[i].type]

\* a byte span that ends one byte late
Span_one_late(node) == <<node.sb, node.eb + 1>>

\* (node.start_byte, node.end_byte)
Span(node) == <<node.sb, node.eb>>

-----------------------------------------------------------------------------
(* Helpers of the LanguageParser base class (language_parser.py) *)

Min(a, b) == IF a < b THEN a ELSE b
Max(a, b) == IF a > b THEN a ELSE b

\* Python slice s[a:b] with 0-based a and exclusive b, clamped to the list
Slice(s, a, b) == SubSeq(s, a + 1, Min(b, Len(s)))

\* file_bytes[start:end]
Bytes(bytes, sb, eb) == Slice(bytes, sb, eb)

\* LanguageParser.span_select(*nodes, indent=True): the text from the start
\* of the first node to the end of the last, after the first node's column
\* in spaces when indent is set
span_select(bytes, nodes, indent) ==
    IF nodes = <<>> THEN <<>>
    ELSE LET text == Bytes(bytes, nodes[1].sb, nodes[Len(nodes)].eb)
         IN IF indent THEN Spaces(nodes[1].scol) \o text ELSE text

\* LanguageParser.select(nodes, indent): span_select of each node
select(bytes, nodes, indent) ==
    [i \in DOMAIN nodes |-> span_select(bytes, <<nodes[i]>>, indent)]

\* children_of_type(node, types): the direct children of one of the types
children_of_type(node, types) ==
    SelectSeq(node.kids, LAMBDA c : c.type \in types)

\* a subtree too deep for the interpreter's stack
RECURSIVE HasDeep(_)
HasDeep(node) ==
    node.deep \/ \E i \in DOMAIN node.kids : HasDeep(node.kids[i])

\* traverse_type(node, results, kind): every node of the kind in the
\* subtree, in pre-order; RecursionError on a subtree that is too deep,
\* with the nodes appended before it kept in results
RECURSIVE traverse_type(_, _), traverse_kids(_, _, _)
traverse_type(node, types) ==
    IF node.deep THEN [exc |-> "RecursionError", val |-> <<>>]
    ELSE LET here == IF node.type \in types THEN <<node>> ELSE <<>>
             r == traverse_kids(node.kids, types, 1)
         IN [exc |-> r.exc, val |-> here \o r.val]

traverse_kids(kids, types, i) ==
    IF i > Len(kids) THEN [exc |-> "", val |-> <<>>]
    ELSE LET a == traverse_type(kids[i], types)
         IN IF Raised(a) THEN a
            ELSE LET b == traverse_kids(kids, types, i + 1)
                 IN [exc |-> b.exc, val |-> a.val \o b.val]

RECURSIVE HasErrorNode(_)
HasErrorNode(node) ==
    \/ node.type = "ERROR"
    \/ node.missing
    \/ \E i \in DOMAIN node.kids : HasErrorNode(node.kids[i])

\* has_correct_syntax(node): no ERROR and no MISSING node in the subtree;
\* RecursionError on a subtree that is too deep
has_correct_syntax(node) ==
    IF HasDeep(node) THEN Raise("RecursionError")
    ELSE Ok(~HasErrorNode(node))

\* nodes_are_equal(n1, n2)
nodes_are_equal(n1, n2) ==
    n1.type = n2.type /\ n1.sb = n2.sb /\ n1.eb = n2.eb

\* previous_sibling(node, parent_node)
previous_sibling(node, parent) ==
    LET i == IndexOf([k \in DOMAIN parent.kids |-> parent.kids[k].id], node.id)
    IN IF i <= 1 THEN NoneNode ELSE parent.kids[i - 1]

\* dict[k] = v on an insertion-ordered dict kept as a sequence of pairs
DictSet(d, k, v) ==
    LET i == IndexOf([j \in DOMAIN d |-> d[j][1]], k)
    IN IF i = 0 THEN Append(d, <<k, v>>) ELSE [d EXCEPT ![i] = <<k, v>>]

\* m[span] = v on a map keyed by (start_byte, end_byte)
MapSet(m, k, v) == (k :> v) @@ m

EmptyMap == <<>>

\* the first exception of a sequence of outcomes' exceptions
RECURSIVE FirstOf(_)
FirstOf(es) ==
    IF es = <<>> THEN "" ELSE IF Head(es) # "" THEN Head(es) ELSE FirstOf(Tail(es))

\* (starting_point + point[0], point[1])
Point(p, row, col) == <<p.starting_point + row, col>>

\* str.splitlines()
RECURSIVE SplitLines(_)
SplitLines(s) ==
    LET i == IndexOf(s, "\n")
    IN IF s = <<>> THEN <<>>
       ELSE IF i = 0 THEN <<s>>
       ELSE <<SubSeq(s, 1, i - 1)>> \o SplitLines(SubSeq(s, i + 1, Len(s)))

\* str.lstrip(chars) for a set of atoms
RECURSIVE LStripOf(_, _)
LStripOf(s, chars) ==
    IF s # <<>> /\ Head(s) \in chars THEN LStripOf(Tail(s), chars) ELSE s

\* textwrap.dedent: the leading spaces common to the non-blank lines go
LeadingSpaces(line) == Len(line) - Len(LStripOf(line, {" "}))

RECURSIVE MinOf(_)
MinOf(ns) ==
    IF Len(ns) = 1 THEN ns[1] ELSE Min(ns[1], MinOf(Tail(ns)))

dedent(s) ==
    LET lines == SplitLines(s)
        full == SelectSeq(lines, LAMBDA l : Strip(l) # <<>>)
        margin == IF full = <<>> THEN 0
                  ELSE MinOf([i \in DOMAIN full |-> LeadingSpaces(full[i])])
    IN JoinLines([i \in DOMAIN lines |->
                    IF Strip(lines[i]) = <<>> THEN <<>>
                    ELSE SubSeq(lines[i], margin + 1, Len(lines[i]))])

\* str.replace(old, new) for single atoms
ReplaceAtom(s, old, new) == [i \in DOMAIN s |-> IF s[i] = old THEN new ELSE s[i]]

-----------------------------------------------------------------------------
(* RubyParser (parsers/ruby_parser.py) *)

Ruby_method_types == {"method", "singleton_method"}
Ruby_class_types == {"class"}
Ruby_import_types == {"call"}
Ruby_namespace_types == {"module"}

\* the name of a namespace followed by ".", or "" without a name node
Ruby_namespace_name(p, node) ==
    LET name_node == child_by_field_name(node, "name")
    IN IF name_node # NoneNode
       THEN span_select(p.file_bytes, <<name_node>>, FALSE) \o <<".">>
       ELSE <<>>

RECURSIVE Ruby_traverse_namespace(_, _, _, _), Ruby_traverse_children(_, _, _, _, _),
          Ruby_traverse_sub_modules(_, _, _, _, _), Ruby_record_classes(_, _, _, _)

\* self._node2namespace[(cls.start_byte, cls.end_byte)] = prefix for each
Ruby_record_classes(classes, prefix, m, i) ==
    IF i > Len(classes) THEN m
    ELSE Ruby_record_classes(classes, prefix, MapSet(m, Span(classes[i]), prefix), i + 1)

Ruby_traverse_sub_modules(p, sub_modules, prefix, m, i) ==
    IF i > Len(sub_modules) THEN m
    ELSE LET m1 == Ruby_traverse_namespace(
                       p, sub_modules[i],
                       prefix \o Ruby_namespace_name(p, sub_modules[i]), m)
         IN Ruby_traverse_sub_modules(p, sub_modules, prefix, m1, i + 1)

Ruby_traverse_children(p, node, prefix, m, i) ==
    IF i > Len(node.kids) THEN m
    ELSE
      LET child == node.kids[i]
          isNs == child.type \in Ruby_namespace_types
          namespace_name == IF isNs THEN Ruby_namespace_name(p, child) ELSE <<>>
          sub_modules == SelectSeq(child.kids,
                             LAMBDA c : c.type = "module" /\ Len(c.kids) > 0)
          m1 == IF isNs
                THEN Ruby_traverse_sub_modules(p, sub_modules,
                                               prefix \o namespace_name, m, 1)
                ELSE m
          sub_nodes == SelectSeq(child.kids,
                           LAMBDA c : c.type \in {"class", "method"})
          m2 == IF isNs /\ Len(sub_nodes) > 0
                THEN Ruby_traverse_namespace(p, child, prefix \o namespace_name, m1)
                ELSE m1
          m3 == IF child.type \in Ruby_class_types
                THEN Ruby_record_classes(
                         children_of_type(child, {"class"}), prefix,
                         MapSet(m2, Span(child), prefix), 1)
                ELSE m2
          m4 == IF child.type \in Ruby_method_types
                THEN MapSet(m3, Span(child), prefix \o namespace_name)
                ELSE m3
      IN Ruby_traverse_children(p, node, prefix, m4, i + 1)

\* RubyParser._traverse_namespace(node, prefix): the _node2namespace map
\* after the traversal, m being the map before it
Ruby_traverse_namespace(p, node, prefix, m) ==
    Ruby_traverse_children(p, node, prefix, m, 1)

\* RubyParser.namespace_nodes: a RecursionError keeps what was found
Ruby_namespace_nodes(p) == traverse_type(p.tree, Ruby_namespace_types).val

\* [x for node in nodes for x in f(node)]
ExtendAll(nodes, F(_)) == Flatten([i \in DOMAIN nodes |-> F(nodes[i])])

Ruby_class_and_grandchildren(node) ==
    children_of_type(node, Ruby_class_types)
    \o ExtendAll(node.kids, LAMBDA child : children_of_type(child, Ruby_class_types))

\* RubyParser.class_nodes
Ruby_class_nodes(p) ==
    LET class_nodes ==
            children_of_type(p.tree, Ruby_class_types)
            \o ExtendAll(Ruby_namespace_nodes(p), Ruby_class_and_grandchildren)
            \o ExtendAll(p.tree.kids, Ruby_class_and_grandchildren)
    IN SelectSeq(class_nodes, LAMBDA c : Len(c.kids) > 0)

\* RubyParser.method_nodes
Ruby_method_nodes(p) ==
    LET method_nodes ==
            children_of_type(p.tree, Ruby_method_types)
            \o ExtendAll(Ruby_namespace_nodes(p),
                         LAMBDA n : children_of_type(n, Ruby_method_types))
    IN SelectSeq(method_nodes, LAMBDA c : Len(c.kids) > 0)

\* RubyParser._clean_docstring_comments
Ruby_clean_docstring_comments(comment) ==
    LET stripped == Strip(comment)
        lines == SplitLines(stripped)
    IN dedent(JoinLines([i \in DOMAIN lines |-> LStripOf(lines[i], {"#"})]))

\* the leading run of comment nodes
RECURSIVE LeadingComments(_)
LeadingComments(kids) ==
    IF kids = <<>> \/ Head(kids).type # "comment" THEN <<>>
    ELSE <<Head(kids)>> \o LeadingComments(Tail(kids))

\* RubyParser.file_docstring
Ruby_file_docstring(p) ==
    LET cs == LeadingComments(p.tree.kids)
    IN Ruby_clean_docstring_comments(
           Flatten([i \in DOMAIN cs |->
                      span_select(p.file_bytes, <<cs[i]>>, TRUE) \o <<"\n">>]))

IsRequire(content) ==
    \/ StartsWith(content, <<"require", " ">>)
    \/ (content # <<>> /\ content[1] \in {"require_relative"})
    \/ StartsWith(content, <<"include", " ">>)

\* RubyParser.file_context
Ruby_file_context(p) ==
    LET nodes == children_of_type(p.tree, Ruby_import_types)
        contents == [i \in DOMAIN nodes |->
                       Strip(span_select(p.file_bytes, <<nodes[i]>>, TRUE))]
    IN SelectSeq(contents, IsRequire)

\* the default arguments and parameter nodes of one method_parameters node:
\* identifiers first, then the optional parameters in order
RECURSIVE Ruby_optional_parameters(_, _, _, _)
Ruby_optional_parameters(p, kids, acc, i) ==
    IF i > Len(kids) THEN Ok(acc)
    ELSE IF kids[i].type # "optional_parameter"
    THEN Ruby_optional_parameters(p, kids, acc, i + 1)
    ELSE LET arg_child == kids[i]
             default_idx == IndexOf(Types(arg_child.kids), "=")
             arg == span_select(p.file_bytes,
                                Slice(arg_child.kids, 0, default_idx - 1), FALSE)
             value == span_select(p.file_bytes,
                                  Slice(arg_child.kids, default_idx,
                                        Len(arg_child.kids)), FALSE)
         IN IF default_idx = 0 THEN Raise("ValueError")
            ELSE Ruby_optional_parameters(
                     p, kids,
                     [default_arguments |-> DictSet(acc.default_arguments, arg, value),
                      param_nodes |-> Append(acc.param_nodes, arg_child)],
                     i + 1)

\* the loop over the children of a method node (ruby_parser.py 238-259)
RECURSIVE Ruby_method_children(_, _, _, _)
Ruby_method_children(p, kids, acc, i) ==
    IF i > Len(kids) THEN Ok(acc)
    ELSE
      LET def_child == kids[i]
          a1 == IF def_child.type = "identifier"
                THEN [acc EXCEPT !.has_name = TRUE,
                                 !.name = Strip(span_select(p.file_bytes,
                                                            <<def_child>>, FALSE))]
                ELSE acc
          r == Ruby_optional_parameters(
                   p, def_child.kids,
                   [default_arguments |-> a1.default_arguments,
                    param_nodes |-> children_of_type(def_child, {"identifier"})],
                   1)
      IN IF def_child.type # "method_parameters"
         THEN Ruby_method_children(p, kids, a1, i + 1)
         ELSE IF Raised(r) THEN r
         ELSE Ruby_method_children(
                  p, kids,
                  [a1 EXCEPT !.default_arguments = r.val.default_arguments,
                             !.parameters = select(p.file_bytes,
                                                   r.val.param_nodes, FALSE)],
                  i + 1)

\* the index of the first child of the type, or the default
FirstIndexOfType(kids, type, default) ==
    LET i == IndexOf(Types(kids), type)
    IN IF i = 0 THEN default ELSE i - 1

\* the signature loop (ruby_parser.py 267-270): the span grows by two
\* children while it reads "def self"; it never ends once the span covers
\* every child and still reads "def self"
RECURSIVE Ruby_signature(_, _, _)
Ruby_signature(p, kids, param_index) ==
    LET sig == span_select(p.file_bytes, Slice(kids, 0, param_index + 1), TRUE)
    IN IF Strip(sig) # <<"def", " ", "self">> THEN Ok(sig)
       ELSE IF param_index + 1 >= Len(kids) THEN Raise("Hang")
       ELSE Ruby_signature(p, kids, param_index + 2)

\* the results dictionary of RubyParser._parse_method_node, from the outcomes
\* of its loops
Ruby_method_results(p, method_node, loop, sig, classes, methods) ==
    LET span == Span(method_node)
        exc == FirstOf(<<loop.exc, sig.exc, classes.exc, methods.exc>>)
        record ==
            [default_arguments |-> loop.val.default_arguments,
             original_string |-> span_select(p.file_bytes, <<method_node>>, TRUE),
             byte_span |-> span,
             start_point |-> Point(p, method_node.srow, method_node.scol),
             end_point |-> Point(p, method_node.erow, method_node.ecol),
             attributes |-> [namespace_prefix |->
                                 IF span \in DOMAIN p.node2namespace
                                 THEN p.node2namespace[span] ELSE <<>>,
                             parameters |-> loop.val.parameters],
             signature |-> sig.val,
             classes |-> classes.val,
             methods |-> methods.val]
    IN IF exc # "" THEN Raise(exc)
       ELSE IF loop.val.has_name
       THEN Ok(record @@ ("name" :> loop.val.name))
       ELSE Ok(record)

\* the nodes with children
WithChildren(nodes) == SelectSeq(nodes, LAMBDA c : Len(c.kids) > 0)

RECURSIVE Ruby_parse_method_node(_, _), Ruby_parse_class_node(_, _)
RECURSIVE Ruby_parse_method_nodes(_, _), Ruby_parse_class_nodes(_, _)

\* [self._parse_method_node(c) for c in nodes]
Ruby_parse_method_nodes(p, nodes) ==
    Collect([i \in DOMAIN nodes |-> Ruby_parse_method_node(p, nodes[i])])

\* [self._parse_class_node(c) for c in nodes]
Ruby_parse_class_nodes(p, nodes) ==
    Collect([i \in DOMAIN nodes |-> Ruby_parse_class_node(p, nodes[i])])

\* RubyParser._parse_method_node
Ruby_parse_method_node(p, method_node) ==
    Ruby_method_results(
        p, method_node,
        Ruby_method_children(
            p, method_node.kids,
            [default_arguments |-> <<>>, parameters |-> <<>>,
             has_name |-> FALSE, name |-> <<>>], 1),
        Ruby_signature(p, method_node.kids,
                       FirstIndexOfType(method_node.kids, "method_parameters", 1)),
        Ruby_parse_class_nodes(p, children_of_type(method_node, Ruby_class_types)),
        Ruby_parse_method_nodes(p, children_of_type(method_node, Ruby_method_types)))

\* the include and attribute expressions of a class (ruby_parser.py 344-358)
Ruby_class_contexts(p, class_node) ==
    LET nodes == children_of_type(class_node, {"call"})
        IsInclude(node) ==
            StartsWith(Strip(span_select(p.file_bytes, <<node>>, TRUE)),
                       <<"include", " ">>)
        includes == SelectSeq(nodes, IsInclude)
        others == SelectSeq(nodes, LAMBDA n : ~IsInclude(n))
        args == ExtendAll(includes,
                          LAMBDA n : children_of_type(n, {"argument_list"}))
        assignments == children_of_type(class_node, {"assignment"})
    IN [contexts |->
            [i \in DOMAIN args |->
                Strip(ReplaceAtom(span_select(p.file_bytes, <<args[i]>>, TRUE),
                                  "::", "."))],
        attribute_expressions |->
            select(p.file_bytes, others, TRUE)
            \o select(p.file_bytes, assignments, TRUE)]

\* the results dictionary of RubyParser._parse_class_node, from its contexts
\* and the outcomes of its comprehensions
Ruby_class_results(p, class_node, ctx, classes, methods) ==
    LET span == Span(class_node)
        name_node == child_by_field_name(class_node, "name")
        bases_node == child_by_field_name(class_node, "superclass")
        param_index == FirstIndexOfType(class_node.kids, "superclass", 1)
        exc == FirstOf(<<classes.exc, methods.exc>>)
    IN IF exc # "" THEN Raise(exc)
       ELSE Ok([class_docstring |-> <<>>,
                definition |-> span_select(p.file_bytes,
                                           Slice(class_node.kids, 0, param_index + 1),
                                           TRUE),
                methods |-> methods.val,
                byte_span |-> span,
                start_point |-> Point(p, class_node.srow, class_node.scol),
                end_point |-> Point(p, class_node.erow, class_node.ecol),
                attributes |-> [namespace_prefix |->
                                    IF span \in DOMAIN p.node2namespace
                                    THEN p.node2namespace[span] ELSE <<>>,
                                contexts |-> ctx.contexts,
                                attribute_expressions |-> ctx.attribute_expressions,
                                bases |->
                                    IF bases_node # NoneNode
                                    THEN select(p.file_bytes,
                                                SelectSeq(bases_node.kids,
                                                          LAMBDA b : b.type # "<"),
                                                FALSE)
                                    ELSE <<>>],
                original_string |-> span_select(p.file_bytes, <<class_node>>, TRUE),
                name |-> IF name_node # NoneNode
                         THEN span_select(p.file_bytes, <<name_node>>, FALSE)
                         ELSE <<>>,
                classes |-> classes.val])

\* RubyParser._parse_class_node
Ruby_parse_class_node(p, class_node) ==
    Ruby_class_results(
        p, class_node,
        Ruby_class_contexts(p, class_node),
        Ruby_parse_class_nodes(
            p, WithChildren(children_of_type(class_node, Ruby_class_types))),
        Ruby_parse_method_nodes(
            p, WithChildren(children_of_type(class_node, Ruby_method_types))))

\* LanguageParser.parse_class_node / parse_method_node: the node must be of
\* the parser's class (method) types
parse_node(node, types, parsed) ==
    IF node.type \notin types THEN Raise("AssertionError") ELSE parsed

\* a reopened class block whose methods are dropped
Ruby_merge_class_first_block_only(acc, full_class_name, class_result, c) ==
    IF IndexOf(acc.class_names, full_class_name) = 0
    THEN [acc EXCEPT !.class_names = Append(@, full_class_name),
                     !.classes = Append(@, class_result),
                     !.spans = Append(@, Span(c))]
    ELSE [acc EXCEPT !.spans = Append(@, Span(c))]

\* RubyParser.schema, the branches of the loop body (ruby_parser.py 397-404):
\* a new name adds a record, a new span of a known name extends its methods
Ruby_merge_class(acc, full_class_name, class_result, c) ==
    LET at == IndexOf(acc.class_names, full_class_name)
    IN IF at = 0
       THEN [acc EXCEPT !.class_names = Append(@, full_class_name),
                        !.classes = Append(@, class_result),
                        !.spans = Append(@, Span(c))]
       ELSE IF IndexOf(acc.spans, Span(c)) = 0
       THEN [acc EXCEPT !.classes[at].methods = @ \o class_result.methods,
                        !.spans = Append(@, Span(c))]
       ELSE acc

\* self.parse_class_node(c) for each of the class nodes
Ruby_parsed_class_nodes(p, nodes) ==
    [i \in DOMAIN nodes |->
        parse_node(nodes[i], Ruby_class_types, Ruby_parse_class_node(p, nodes[i]))]

\* the loop of RubyParser.schema over class_nodes (ruby_parser.py 394-405);
\* parsed[i] is the outcome of parse_class_node for nodes[i]
RECURSIVE Ruby_schema_classes(_, _, _, _)
Ruby_schema_classes(nodes, parsed, acc, i) ==
    IF i > Len(nodes) THEN Ok(acc)
    ELSE IF Raised(parsed[i]) THEN parsed[i]
    ELSE Ruby_schema_classes(
             nodes, parsed,
             [Ruby_merge_class(acc,
                               parsed[i].val.attributes.namespace_prefix
                                   \o parsed[i].val.name,
                               parsed[i].val, nodes[i])
                 EXCEPT !.in_class_methods =
                            @ \o [j \in DOMAIN parsed[i].val.methods |->
                                     parsed[i].val.methods[j].byte_span]],
             i + 1)

\* static_hash(file_bytes): a digest is represented by the text it digests
static_hash(bytes) == bytes

\* the dictionary RubyParser.schema returns (ruby_parser.py 407-413)
Ruby_schema_results(p, cls, methods) ==
    IF Raised(methods) THEN Raise(methods.exc)
    ELSE Ok([file_hash |-> static_hash(p.file_bytes),
             file_docstring |-> Ruby_file_docstring(p),
             contexts |-> Ruby_file_context(p),
             methods |-> methods.val,
             classes |-> cls.val.classes])

\* [self.parse_method_node(c) for c in nodes]
Ruby_parsed_method_nodes(p, nodes) ==
    Collect([i \in DOMAIN nodes |->
                parse_node(nodes[i], Ruby_method_types,
                           Ruby_parse_method_node(p, nodes[i]))])

\* RubyParser.schema after the loop over class_nodes
Ruby_schema_after_classes(p, cls) ==
    IF Raised(cls) THEN Raise(cls.exc)
    ELSE Ruby_schema_results(
             p, cls,
             Ruby_parsed_method_nodes(
                 p, SelectSeq(Ruby_method_nodes(p),
                              LAMBDA c : IndexOf(cls.val.in_class_methods,
                                                 Span(c)) = 0)))

\* the class nodes merged by qualified name
Ruby_merged_classes(p, nodes) ==
    Ruby_schema_classes(
        nodes, Ruby_parsed_class_nodes(p, nodes),
        [class_names |-> <<>>, classes |-> <<>>, spans |-> <<>>,
         in_class_methods |-> <<>>], 1)

\* RubyParser.schema
Ruby_schema(p) ==
    Ruby_schema_after_classes(p, Ruby_merged_classes(p, Ruby_class_nodes(p)))

-----------------------------------------------------------------------------
(* Ruby source files: outlines of the trees tree-sitter-ruby produces *)

\* def name ... end
RbMethod(name, ind) ==
    Node("method", <<TkNl("def", "def", ind), Tk("identifier", name),
                     TkNl("end", "end", ind)>>)

\* def name(x, y = 1) ... end
RbMethodWithDefaults(name, ind) ==
    Node("method",
         <<TkNl("def", "def", ind), Tk("identifier", name),
           Node("method_parameters",
                <<Tk0("(", "("), Tk0("identifier", "x"), Tk0(",", ","),
                  Node("optional_parameter",
                       <<Tk("identifier", "y"), Tk("=", "="),
                         Tk("integer", "1")>>),
                  Tk0(")", ")")>>),
           TkNl("end", "end", ind)>>)

\* def self.name ... end
RbSingleton(name, ind) ==
    Node("singleton_method",
         <<TkNl("def", "def", ind), Tk("self", "self"), Tk0(".", "."),
           Tk0("identifier", name), TkNl("end", "end", ind)>>)

\* "def self" at the end of the input: error recovery closes the node
RbSingletonCut(ind) ==
    Node("singleton_method", <<TkNl("def", "def", ind), Tk("self", "self")>>)

\* class Name ... end
RbClass(name, members, ind) ==
    Node("class",
         <<TkNl("class", "class", ind), Fld("name", Tk("constant", name))>>
         \o members \o <<TkNl("end", "end", ind)>>)

\* class Name < Base ... end
RbSubClass(name, base, members, ind) ==
    Node("class",
         <<TkNl("class", "class", ind), Fld("name", Tk("constant", name)),
           Fld("superclass", Node("superclass", <<Tk("<", "<"),
                                                  Tk("constant", base)>>))>>
         \o members \o <<TkNl("end", "end", ind)>>)

\* module Name ... end
RbModule(name, members, ind) ==
    Node("module",
         <<TkNl("module", "module", ind), Fld("name", Tk("constant", name))>>
         \o members \o <<TkNl("end", "end", ind)>>)

\* include Name / require 'x'
RbCall(fn, arg, ind) ==
    Node("call", <<TkNl("identifier", fn, ind),
                   Node("argument_list", <<Tk("constant", arg)>>)>>)

RbComment(ind) == Leaf("comment", <<"#", "doc">>, TRUE, ind)

RubyItems ==
    { RbClass("A", <<RbMethod("m", 2)>>, 0),
      RbClass("A", <<RbMethodWithDefaults("n", 2)>>, 0),
      RbModule("M", <<RbClass("A", <<RbSingleton("q", 4)>>, 2)>>, 0),
      RbSubClass("A", "B", <<RbCall("include", "K", 2),
                             RbClass("C", <<RbMethod("m", 4)>>, 2)>>, 0),
      RbClass("D", <<RbClass("C", <<RbMethodWithDefaults("n", 4)>>, 2)>>, 0),
      RbMethod("f", 1),
      RbSingletonCut(0),
      RbCall("require", "'x'", 0),
      RbComment(0) }

-----------------------------------------------------------------------------
(* PythonParser (parsers/python_parser.py) *)

Python_import_types == {"import_statement", "import_from_statement"}
Python_docstring_types == {"string", "comment"}
Python_method_types == {"function_definition", "decorated_definition"}
Python_class_types == {"class_definition", "decorated_definition"}

\* a dict entry that exists only once something was appended under the key
Opt(key, value) == IF value = <<>> THEN <<>> ELSE (key :> value)

\* PythonParser._distinguish_decorated(defn)(node) is not None
distinguish_decorated(defn, node) ==
    \/ node.type = defn
    \/ /\ node.type = "decorated_definition"
       /\ node.kids # <<>>
       /\ node.kids[Len(node.kids)].type = defn

\* PythonParser.class_nodes
Python_class_nodes(p) ==
    SelectSeq(p.tree.kids, LAMBDA n : distinguish_decorated("class_definition", n))

\* PythonParser.method_nodes
Python_method_nodes(p) ==
    SelectSeq(p.tree.kids, LAMBDA n : distinguish_decorated("function_definition", n))

\* PythonParser._clean_docstring_comments
Python_clean_docstring_comments(comment) ==
    LET lines == SplitLines(Strip(comment))
    IN dedent(JoinLines([i \in DOMAIN lines |-> LStripOf(lines[i], {"#"})]))

\* PythonParser.file_docstring
Python_file_docstring(p) ==
    IF p.tree.kids = <<>> THEN <<>>
    ELSE LET first == p.tree.kids[1]
         IN Python_clean_docstring_comments(
                IF first.kids # <<>> /\ first.kids[1].type = "string"
                THEN span_select(p.file_bytes, <<first.kids[1]>>, TRUE)
                ELSE IF first.type = "comment"
                THEN span_select(p.file_bytes, <<first>>, TRUE)
                ELSE <<>>)

\* LanguageParser.file_imports: the text of each top-level import node, in
\* a list built by the call
file_imports(p, import_types) ==
    select(p.file_bytes, children_of_type(p.tree, import_types), TRUE)

\* PythonParser.file_context
Python_file_context(p) ==
    file_imports(p, Python_import_types)
    \o select(p.file_bytes,
              SelectSeq(p.tree.kids,
                        LAMBDA c : /\ c.type = "expression_statement"
                                   /\ c.kids # <<>>
                                   /\ c.kids[1].type = "assignment"),
              TRUE)

\* the last child of the type
RECURSIVE LastOfType(_, _, _)
LastOfType(kids, type, default) ==
    IF kids = <<>> THEN default
    ELSE IF kids[Len(kids)].type = type THEN kids[Len(kids)]
    ELSE LastOfType(SubSeq(kids, 1, Len(kids) - 1), type, default)

\* the default arguments of a parameters node (python_parser.py 176-186)
RECURSIVE Python_default_arguments(_, _, _, _)
Python_default_arguments(p, kids, acc, i) ==
    IF i > Len(kids) THEN Ok(acc)
    ELSE IF kids[i].type \notin {"default_parameter", "typed_default_parameter"}
    THEN Python_default_arguments(p, kids, acc, i + 1)
    ELSE LET arg_child == kids[i]
             default_idx == IndexOf(Types(arg_child.kids), "=")
             arg == span_select(p.file_bytes,
                                Slice(arg_child.kids, 0, default_idx - 1), FALSE)
             value == span_select(p.file_bytes,
                                  Slice(arg_child.kids, default_idx,
                                        Len(arg_child.kids)), FALSE)
         IN IF default_idx = 0 THEN Raise("ValueError")
            ELSE Python_default_arguments(p, kids, DictSet(acc, arg, value), i + 1)

\* the loop over method_node.children[:-1] (python_parser.py 169-186)
RECURSIVE Python_method_children(_, _, _, _)
Python_method_children(p, kids, acc, i) ==
    IF i > Len(kids) THEN Ok(acc)
    ELSE
      LET def_child == kids[i]
          a1 == IF def_child.type = "identifier"
                THEN [acc EXCEPT !.has_name = TRUE,
                                 !.name = Strip(span_select(p.file_bytes,
                                                            <<def_child>>, FALSE))]
                ELSE acc
          r == Python_default_arguments(p, def_child.kids,
                                        a1.default_arguments, 1)
      IN IF def_child.type # "parameters"
         THEN Python_method_children(p, kids, a1, i + 1)
         ELSE IF Raised(r) THEN r
         ELSE Python_method_children(
                  p, kids, [a1 EXCEPT !.default_arguments = r.val], i + 1)

\* body and docstring of a method (python_parser.py 191-201)
Python_body(p, body_node) ==
    IF body_node.kids # <<>> /\ body_node.kids[1].kids # <<>>
    THEN IF body_node.kids[1].kids[1].type \in Python_docstring_types
         THEN [docstring |-> Python_clean_docstring_comments(
                                 span_select(p.file_bytes,
                                             <<body_node.kids[1].kids[1]>>, TRUE)),
               body |-> span_select(p.file_bytes, Tail(body_node.kids), TRUE)]
         ELSE [docstring |-> <<>>,
               body |-> span_select(p.file_bytes, <<body_node>>, TRUE)]
    ELSE [docstring |-> <<>>, body |-> <<>>]

\* the results dictionary of PythonParser._parse_method_node: node is the
\* node given, method_node the function definition inside its decorators
Python_method_results(p, node, method_node, syntax_pass, decorators, loop, bd) ==
    LET exc == FirstOf(<<syntax_pass.exc, loop.exc,
                         IF method_node.kids = <<>> THEN "IndexError" ELSE "">>)
        record ==
            [attributes |-> Opt("decorators", decorators),
             syntax_pass |-> syntax_pass.val,
             default_arguments |-> loop.val.default_arguments,
             original_string |-> span_select(p.file_bytes, <<node>>, TRUE),
             byte_span |-> Span(node),
             start_point |-> Point(p, node.srow, node.scol),
             end_point |-> Point(p, node.erow, node.ecol),
             signature |-> JoinLines(Append(
                               decorators,
                               span_select(p.file_bytes,
                                           Slice(method_node.kids, 0,
                                                 Len(method_node.kids) - 1), TRUE))),
             body |-> bd.body,
             docstring |-> bd.docstring]
    IN IF exc # "" THEN Raise(exc)
       ELSE IF loop.val.has_name
       THEN Ok(record @@ ("name" :> loop.val.name))
       ELSE Ok(record)

\* PythonParser._parse_method_node once the function definition is found
\* (python_parser.py 159-166)
Python_parse_function(p, node, method_node) ==
    Python_method_results(
        p, node, method_node,
        has_correct_syntax(node),
        IF node.type = "decorated_definition"
        THEN select(p.file_bytes, children_of_type(node, {"decorator"}), TRUE)
        ELSE <<>>,
        Python_method_children(
            p, Slice(method_node.kids, 0, Len(method_node.kids) - 1),
            [default_arguments |-> <<>>, has_name |-> FALSE, name |-> <<>>], 1),
        Python_body(p, method_node.kids[Len(method_node.kids)]))

\* PythonParser._parse_method_node
Python_parse_method_node(p, node) ==
    Python_parse_function(
        p, node,
        IF node.type = "decorated_definition"
        THEN LastOfType(node.kids, "function_definition", node)
        ELSE node)

RECURSIVE Python_parse_class_node(_, _), Python_parsed_members(_, _)

\* parse_method_node and parse_class_node of the children of a class body
\* that are methods and classes (python_parser.py 244-247)
Python_parsed_members(p, kids) ==
    [i \in DOMAIN kids |->
        [m |-> IF distinguish_decorated("function_definition", kids[i])
               THEN parse_node(kids[i], Python_method_types,
                               Python_parse_method_node(p, kids[i]))
               ELSE Ok(<<>>),
         c |-> IF distinguish_decorated("class_definition", kids[i])
               THEN parse_node(kids[i], Python_class_types,
                               Python_parse_class_node(p, kids[i]))
               ELSE Ok(<<>>)]]

\* what one child of a class body adds to the results (python_parser.py
\* 236-247)
Python_class_member(p, child, parsed, acc, i) ==
    [acc EXCEPT
        !.class_docstring =
            IF i = 1 /\ child.kids # <<>> /\ child.kids[1].type = "string"
            THEN Python_clean_docstring_comments(
                     span_select(p.file_bytes, <<child.kids[1]>>, TRUE))
            ELSE @,
        !.attribute_expressions =
            IF child.kids # <<>> /\ child.kids[1].type = "assignment"
            THEN Append(@, span_select(p.file_bytes, <<child>>, FALSE))
            ELSE @,
        !.methods =
            IF distinguish_decorated("function_definition", child)
            THEN Append(@, parsed.m.val) ELSE @,
        !.classes =
            IF distinguish_decorated("class_definition", child)
            THEN Append(@, parsed.c.val) ELSE @]

\* the loop over the children of a class body (python_parser.py 235-247)
RECURSIVE Python_class_members(_, _, _, _, _)
Python_class_members(p, kids, parsed, acc, i) ==
    IF i > Len(kids) THEN Ok(acc)
    ELSE IF Raised(parsed[i].m) THEN parsed[i].m
    ELSE IF Raised(parsed[i].c) THEN parsed[i].c
    ELSE Python_class_members(
             p, kids, parsed,
             Python_class_member(p, kids[i], parsed[i], acc, i), i + 1)

\* the results dictionary of PythonParser._parse_class_node: node is the
\* node given, class_node the class definition inside its decorators
Python_class_results(p, node, class_node, decorators, members) ==
    LET colon == IndexOf(Types(class_node.kids), ":")
        exc == FirstOf(<<IF colon = 0 THEN "ValueError" ELSE "",
                         IF Len(class_node.kids) < 2 THEN "IndexError" ELSE "",
                         members.exc>>)
    IN IF exc # "" THEN Raise(exc)
       ELSE Ok([attributes |->
                    Opt("decorators", decorators)
                    @@ Opt("attribute_expressions", members.val.attribute_expressions)
                    @@ Opt("classes", members.val.classes),
                class_docstring |-> members.val.class_docstring,
                methods |-> members.val.methods,
                byte_span |-> Span(node),
                start_point |-> Point(p, node.srow, node.scol),
                end_point |-> Point(p, node.erow, node.ecol),
                original_string |-> span_select(p.file_bytes, <<node>>, TRUE),
                definition |-> JoinLines(Append(decorators,
                                  span_select(p.file_bytes,
                                              Slice(class_node.kids, 0, colon), TRUE))),
                name |-> span_select(p.file_bytes, <<class_node.kids[2]>>, FALSE)])

\* the stripped text of each of the nodes
StrippedTexts(p, nodes) ==
    [i \in DOMAIN nodes |-> Strip(span_select(p.file_bytes, <<nodes[i]>>, TRUE))]

\* PythonParser._parse_class_node once the class definition is found
\* (python_parser.py 218-225)
Python_parse_class(p, node, class_node) ==
    Python_class_results(
        p, node, class_node,
        IF node.type = "decorated_definition"
        THEN StrippedTexts(p, children_of_type(node, {"decorator"}))
        ELSE <<>>,
        Python_class_members(
            p, class_node.kids[Len(class_node.kids)].kids,
            Python_parsed_members(p, class_node.kids[Len(class_node.kids)].kids),
            [class_docstring |-> <<>>, attribute_expressions |-> <<>>,
             methods |-> <<>>, classes |-> <<>>], 1))

\* PythonParser._parse_class_node
Python_parse_class_node(p, node) ==
    Python_parse_class(
        p, node,
        IF node.type = "decorated_definition"
        THEN LastOfType(node.kids, "class_definition", node)
        ELSE node)

\* LanguageParser.schema
base_schema(p, file_docstring, contexts, method_rs, class_rs) ==
    LET methods == Collect(method_rs)
        classes == Collect(class_rs)
    IN IF Raised(methods) THEN Raise(methods.exc)
       ELSE IF Raised(classes) THEN Raise(classes.exc)
       ELSE Ok([file_hash |-> static_hash(p.file_bytes),
                file_docstring |-> file_docstring,
                contexts |-> contexts,
                methods |-> methods.val,
                classes |-> classes.val])

\* PythonParser.schema
Python_schema(p) ==
    LET ms == Python_method_nodes(p)
        cs == Python_class_nodes(p)
    IN base_schema(p, Python_file_docstring(p), Python_file_context(p),
                   [i \in DOMAIN ms |->
                      parse_node(ms[i], Python_method_types,
                                 Python_parse_method_node(p, ms[i]))],
                   [i \in DOMAIN cs |->
                      parse_node(cs[i], Python_class_types,
                                 Python_parse_class_node(p, cs[i]))])

-----------------------------------------------------------------------------
(* commentutils.strip_c_style_comment_delimiters *)

EndsWith(s, e) == Len(s) >= Len(e) /\ SubSeq(s, Len(s) - Len(e) + 1, Len(s)) = e

DropLast(s, n) == SubSeq(s, 1, Len(s) - n)
DropFirst(s, n) == SubSeq(s, n + 1, Len(s))

strip_c_style_line(line) ==
    LET l0 == LStrip(line)
        l1 == IF EndsWith(l0, <<" ", "*/">>) THEN DropLast(l0, 2)
              ELSE IF EndsWith(l0, <<"*/">>) THEN DropLast(l0, 1)
              ELSE l0
    IN IF StartsWith(l1, <<"*", " ">>) THEN DropFirst(l1, 2)
       ELSE IF l1 # <<>> /\ l1[1] \in {"/**", "/*", "///", "//", "*"}
       THEN DropFirst(l1, 1)
       ELSE l1

strip_c_style_comment_delimiters(comment) ==
    LET lines == SplitLines(comment)
    IN JoinLines([i \in DOMAIN lines |-> strip_c_style_line(lines[i])])

-----------------------------------------------------------------------------
(* CSharpParser (parsers/csharp_parser.py) *)

CSharp_method_types == {"constructor_declaration", "method_declaration"}
CSharp_class_types ==
    {"class_declaration", "struct_declaration", "interface_declaration"}
CSharp_import_types == {"using_directive"}
CSharp_docstring_types == {"comment"}
CSharp_namespace_types == {"namespace_declaration"}

\* the first child of the type, or None
FirstOfType(node, type) ==
    LET i == IndexOf(Types(node.kids), type)
    IN IF i = 0 THEN NoneNode ELSE node.kids[i]

\* the number of docstring nodes that end at position i of the children
RECURSIVE CommentRun(_, _, _)
CommentRun(kids, i, types) ==
    IF i < 1 \/ kids[i].type \notin types THEN 0
    ELSE 1 + CommentRun(kids, i - 1, types)

\* CSharpParser._get_docstring_before: the comment nodes directly before the
\* node among the children of its parent (the root when there is no parent);
\* the empty list stands for None
CSharp_get_docstring_before(p, node, parent_node) ==
    LET parent == IF parent_node = NoneNode THEN p.tree ELSE parent_node
        node_index == IndexOf([k \in DOMAIN parent.kids |-> parent.kids[k].id],
                              node.id)
        n == CommentRun(parent.kids, node_index - 1, CSharp_docstring_types)
    IN IF node_index = 0 THEN <<>>
       ELSE SubSeq(parent.kids, node_index - n, node_index - 1)

\* the docstring text of the comment nodes
CSharp_docstring(p, comment_nodes, indent) ==
    IF comment_nodes = <<>> THEN <<>>
    ELSE Strip(strip_c_style_comment_delimiters(
                   span_select(p.file_bytes, comment_nodes, indent)))

\* CSharpParser.file_docstring
CSharp_file_docstring(p) ==
    LET cs == LeadingComments(p.tree.kids)
    IN Strip(strip_c_style_comment_delimiters(
           Flatten([i \in DOMAIN cs |->
                      span_select(p.file_bytes, <<cs[i]>>, TRUE) \o <<"\n">>])))

\* CSharpParser.file_context
CSharp_file_context(p) ==
    LET nodes == children_of_type(p.tree, CSharp_import_types)
    IN [i \in DOMAIN nodes |-> Strip(span_select(p.file_bytes, <<nodes[i]>>, TRUE))]

\* CSharpParser._traverse_namespace: the maps _node2namespace and _node2parent
RECURSIVE CSharp_traverse_namespace(_, _, _, _), CSharp_traverse_children(_, _, _, _, _)
CSharp_traverse_children(p, node, prefix, m, i) ==
    IF i > Len(node.kids) THEN m
    ELSE
      LET child == node.kids[i]
          name_node == child_by_field_name(child, "name")
          namespace_name == IF name_node # NoneNode
                            THEN span_select(p.file_bytes, <<name_node>>, FALSE)
                            ELSE <<"(unique)">>
          list == FirstOfType(child, "declaration_list")
          m1 == IF child.type \in CSharp_namespace_types /\ list # NoneNode
                THEN CSharp_traverse_namespace(
                         p, list, prefix \o namespace_name \o <<".">>, m)
                ELSE m
          m2 == IF child.type \in CSharp_class_types \cup CSharp_method_types
                THEN [ns |-> MapSet(m1.ns, Span(child), prefix),
                      parent |-> MapSet(m1.parent, Span(child), node)]
                ELSE m1
      IN CSharp_traverse_children(p, node, prefix, m2, i + 1)

CSharp_traverse_namespace(p, node, prefix, m) ==
    CSharp_traverse_children(p, node, prefix, m, 1)

\* CSharpParser.namespace_nodes
CSharp_namespace_nodes(p) == traverse_type(p.tree, CSharp_namespace_types).val

\* children of the types in the declaration list of each namespace
InDeclarationLists(namespace_nodes, types) ==
    ExtendAll(namespace_nodes,
              LAMBDA n : IF FirstOfType(n, "declaration_list") = NoneNode THEN <<>>
                         ELSE children_of_type(FirstOfType(n, "declaration_list"),
                                               types))

\* CSharpParser.class_nodes
CSharp_class_nodes(p) ==
    children_of_type(p.tree, CSharp_class_types)
    \o InDeclarationLists(CSharp_namespace_nodes(p), CSharp_class_types)

\* CSharpParser.method_nodes
CSharp_method_nodes(p) ==
    children_of_type(p.tree, CSharp_method_types)
    \o InDeclarationLists(CSharp_namespace_nodes(p), CSharp_method_types)

\* span_select(node, indent) if node else ""
SelectOrEmpty(p, node, indent) ==
    IF node = NoneNode THEN <<>> ELSE span_select(p.file_bytes, <<node>>, indent)

\* try: has_correct_syntax(node) except RecursionError: False
syntax_pass_or_false(node) ==
    LET r == has_correct_syntax(node)
    IN IF r.exc = "RecursionError" THEN FALSE ELSE r.val

\* CSharpParser._get_field_info
CSharp_get_field_info(p, field_node) ==
    LET decl == FirstOfType(field_node, "variable_declaration")
        names == IF decl = NoneNode THEN <<>>
                 ELSE children_of_type(decl, {"variable_declarator"})
    IN [type |-> IF decl = NoneNode THEN <<>>
                 ELSE SelectOrEmpty(p, child_by_field_name(decl, "type"), FALSE),
        name |-> IF names = <<>> THEN <<>>
                 ELSE span_select(p.file_bytes, <<names[Len(names)]>>, FALSE)]

\* the attributes of the leading attribute_list, or the default
CSharp_attributes(p, node) ==
    IF node.kids[1].type = "attribute_list"
    THEN select(p.file_bytes, children_of_type(node.kids[1], {"attribute"}), FALSE)
    ELSE <<>>

RECURSIVE CSharp_parse_method_node(_, _, _), CSharp_parse_class_node(_, _, _)

\* the nested class and method records of a body node
CSharp_nested(p, body_node) ==
    LET cs == IF body_node = NoneNode THEN <<>>
              ELSE children_of_type(body_node, CSharp_class_types)
        ms == IF body_node = NoneNode THEN <<>>
              ELSE children_of_type(body_node, CSharp_method_types)
    IN [classes |-> Collect([i \in DOMAIN cs |->
                               CSharp_parse_class_node(p, cs[i], body_node)]),
        methods |-> Collect([i \in DOMAIN ms |->
                               CSharp_parse_method_node(p, ms[i], body_node)])]

\* the result dictionary of CSharpParser._parse_method_node, from the records
\* nested in its body
CSharp_method_results(p, method_node, parent_arg, nested) ==
    LET span == Span(method_node)
        known == span \in DOMAIN p.node2namespace
        parent_node == IF known THEN p.node2parent[span] ELSE parent_arg
        parameter_list == FirstOfType(method_node, "parameter_list")
        body_node == child_by_field_name(method_node, "body")
        start_index == IF method_node.kids[1].type = "attribute_list" THEN 1 ELSE 0
        param_index == IndexOf(Types(method_node.kids), "parameter_list") - 1
        exc == FirstOf(<<IF parameter_list = NoneNode THEN "UnboundLocalError" ELSE "",
                         nested.classes.exc, nested.methods.exc>>)
    IN IF exc # "" THEN Raise(exc)
       ELSE Ok(
         [original_string |-> span_select(p.file_bytes, <<method_node>>, TRUE),
          byte_span |-> span,
          start_point |-> Point(p, method_node.srow, method_node.scol),
          end_point |-> Point(p, method_node.erow, method_node.ecol),
          attributes |->
              [namespace_prefix |-> IF known THEN p.node2namespace[span] ELSE <<>>,
               attributes |-> CSharp_attributes(p, method_node),
               parameters |-> select(p.file_bytes,
                                     children_of_type(parameter_list, {"parameter"}),
                                     FALSE),
               return_type |-> SelectOrEmpty(
                                   p, child_by_field_name(method_node, "type"), FALSE),
               modifiers |-> select(p.file_bytes,
                                    children_of_type(method_node, {"modifier"}),
                                    FALSE)],
          docstring |-> CSharp_docstring(
                            p, CSharp_get_docstring_before(p, method_node, parent_node),
                            TRUE),
          name |-> SelectOrEmpty(p, child_by_field_name(method_node, "name"), FALSE),
          body |-> SelectOrEmpty(p, body_node, TRUE),
          signature |-> span_select(p.file_bytes,
                                    Slice(method_node.kids, start_index,
                                          param_index + 1), TRUE),
          syntax_pass |-> syntax_pass_or_false(method_node),
          classes |-> nested.classes.val,
          methods |-> nested.methods.val])

\* CSharpParser._parse_method_node
CSharp_parse_method_node(p, method_node, parent_arg) ==
    CSharp_method_results(
        p, method_node, parent_arg,
        CSharp_nested(p, child_by_field_name(method_node, "body")))

\* a field record that carries the span of its node
CSharp_field_with_span(p, node, body_node) ==
    [original_string |-> span_select(p.file_bytes, <<node>>, FALSE),
     byte_span |-> Span(node),
     start_point |-> Point(p, node.srow, node.scol),
     end_point |-> Point(p, node.erow, node.ecol),
     docstring |-> CSharp_docstring(
                       p, CSharp_get_docstring_before(p, node, body_node), FALSE),
     type |-> CSharp_get_field_info(p, node).type,
     name |-> CSharp_get_field_info(p, node).name,
     modifiers |-> select(p.file_bytes, children_of_type(node, {"modifier"}), FALSE),
     syntax_pass |-> syntax_pass_or_false(node)]

\* one record of attributes.fields (csharp_parser.py 426-450)
CSharp_field(p, node, body_node) ==
    [original_string |-> span_select(p.file_bytes, <<node>>, FALSE),
     docstring |-> CSharp_docstring(
                       p, CSharp_get_docstring_before(p, node, body_node), FALSE),
     type |-> CSharp_get_field_info(p, node).type,
     name |-> CSharp_get_field_info(p, node).name,
     modifiers |-> select(p.file_bytes, children_of_type(node, {"modifier"}), FALSE),
     syntax_pass |-> syntax_pass_or_false(node)]

\* one record of attributes.properties (csharp_parser.py 457-493)
CSharp_property(p, node, body_node) ==
    [original_string |-> span_select(p.file_bytes, <<node>>, FALSE),
     docstring |-> CSharp_docstring(
                       p, CSharp_get_docstring_before(p, node, body_node), FALSE),
     type |-> SelectOrEmpty(p, child_by_field_name(node, "type"), FALSE),
     name |-> SelectOrEmpty(p, child_by_field_name(node, "name"), FALSE),
     accessors |-> SelectOrEmpty(p, child_by_field_name(node, "accessors"), FALSE),
     modifiers |-> select(p.file_bytes, children_of_type(node, {"modifier"}), FALSE),
     syntax_pass |-> syntax_pass_or_false(node)]

\* class_node.type.split("_")[0]
module_type(type) ==
    CASE type = "class_declaration" -> "class"
      [] type = "struct_declaration" -> "struct"
      [] type = "interface_declaration" -> "interface"
      [] OTHER -> type

\* the result dictionary of CSharpParser._parse_class_node, from the records
\* nested in its body
CSharp_class_results(p, class_node, parent_arg, nested) ==
    LET span == Span(class_node)
        known == span \in DOMAIN p.node2namespace
        parent_node == IF known THEN p.node2parent[span] ELSE parent_arg
        defn_index == IndexOf(Types(class_node.kids), "identifier")
        body_node == child_by_field_name(class_node, "body")
        bases_node == child_by_field_name(class_node, "bases")
        field_nodes == IF body_node = NoneNode THEN <<>>
                       ELSE children_of_type(body_node, {"field_declaration"})
        property_nodes == IF body_node = NoneNode THEN <<>>
                          ELSE children_of_type(body_node, {"property_declaration"})
        exc == FirstOf(<<IF defn_index = 0 THEN "ValueError" ELSE "",
                         nested.classes.exc, nested.methods.exc>>)
    IN IF exc # "" THEN Raise(exc)
       ELSE Ok(
         [module_type |-> module_type(class_node.type),
          original_string |-> span_select(p.file_bytes, <<class_node>>, TRUE),
          byte_span |-> span,
          start_point |-> Point(p, class_node.srow, class_node.scol),
          end_point |-> Point(p, class_node.erow, class_node.ecol),
          attributes |->
              [namespace_prefix |-> IF known THEN p.node2namespace[span] ELSE <<>>,
               attributes |-> CSharp_attributes(p, class_node),
               fields |-> [i \in DOMAIN field_nodes |->
                             CSharp_field(p, field_nodes[i], body_node)],
               properties |-> [i \in DOMAIN property_nodes |->
                                 CSharp_property(p, property_nodes[i], body_node)],
               modifiers |-> select(p.file_bytes,
                                    children_of_type(class_node, {"modifier"}), FALSE),
               bases |-> IF bases_node = NoneNode THEN <<>>
                         ELSE select(p.file_bytes,
                                     SelectSeq(bases_node.kids,
                                               LAMBDA b : b.type \notin {":", ","}),
                                     FALSE)],
          definition |-> span_select(p.file_bytes,
                                     Slice(class_node.kids, 0, defn_index), TRUE),
          class_docstring |-> CSharp_docstring(
                                  p, CSharp_get_docstring_before(p, class_node,
                                                                 parent_node), TRUE),
          name |-> SelectOrEmpty(p, child_by_field_name(class_node, "name"), FALSE),
          body |-> SelectOrEmpty(p, body_node, TRUE),
          syntax_pass |-> syntax_pass_or_false(class_node),
          classes |-> nested.classes.val,
          methods |-> nested.methods.val])

\* CSharpParser._parse_class_node
CSharp_parse_class_node(p, class_node, parent_arg) ==
    CSharp_class_results(
        p, class_node, parent_arg,
        CSharp_nested(p, child_by_field_name(class_node, "body")))

\* CSharpParser.schema (LanguageParser.schema)
CSharp_schema(p) ==
    LET ms == CSharp_method_nodes(p)
        cs == CSharp_class_nodes(p)
    IN base_schema(p, CSharp_file_docstring(p), CSharp_file_context(p),
                   [i \in DOMAIN ms |->
                      parse_node(ms[i], CSharp_method_types,
                                 CSharp_parse_method_node(p, ms[i], NoneNode))],
                   [i \in DOMAIN cs |->
                      parse_node(cs[i], CSharp_class_types,
                                 CSharp_parse_class_node(p, cs[i], NoneNode))])

-----------------------------------------------------------------------------
(* CppParser (parsers/cpp_parser.py) *)

Cpp_method_types == {"function_definition"}
Cpp_class_types == {"class_specifier"}
Cpp_import_types == {"preproc_include", "preproc_def", "preproc_call"}
Cpp_docstring_types == {"comment"}
Cpp_namespace_types == {"namespace_definition"}

\* CppParser._get_docstring_before: the previous sibling if it is a comment
Cpp_get_docstring_before(p, node, parent_node) ==
    LET parent == IF parent_node = NoneNode THEN p.tree ELSE parent_node
        prev_sib == previous_sibling(node, parent)
    IN IF prev_sib = NoneNode THEN NoneNode
       ELSE IF prev_sib.type \in Cpp_docstring_types THEN prev_sib
       ELSE NoneNode

Cpp_docstring(p, comment_node) ==
    IF comment_node = NoneNode THEN <<>>
    ELSE Strip(strip_c_style_comment_delimiters(
                   span_select(p.file_bytes, <<comment_node>>, FALSE)))

\* CppParser.file_docstring
Cpp_file_docstring(p) ==
    LET cs == LeadingComments(p.tree.kids)
    IN Strip(strip_c_style_comment_delimiters(
           Flatten([i \in DOMAIN cs |->
                      span_select(p.file_bytes, <<cs[i]>>, TRUE) \o <<"\n">>])))

\* CppParser.file_context
Cpp_file_context(p) ==
    LET nodes == children_of_type(p.tree, Cpp_import_types)
    IN [i \in DOMAIN nodes |-> Strip(span_select(p.file_bytes, <<nodes[i]>>, TRUE))]

\* CppParser._traverse_namespace
RECURSIVE Cpp_traverse_namespace(_, _, _, _), Cpp_traverse_children(_, _, _, _, _)
Cpp_traverse_children(p, node, prefix, m, i) ==
    IF i > Len(node.kids) THEN m
    ELSE
      LET child == node.kids[i]
          name_node == child_by_field_name(child, "name")
          namespace_name == IF name_node # NoneNode
                            THEN span_select(p.file_bytes, <<name_node>>, FALSE)
                            ELSE <<"(unique)">>
          list == FirstOfType(child, "declaration_list")
          m1 == IF child.type \in Cpp_namespace_types /\ list # NoneNode
                THEN Cpp_traverse_namespace(
                         p, list, prefix \o namespace_name \o <<"::">>, m)
                ELSE m
          m2 == IF child.type \in {"class_specifier", "function_definition"}
                THEN [ns |-> MapSet(m1.ns, Span(child), prefix),
                      parent |-> MapSet(m1.parent, Span(child), node)]
                ELSE m1
      IN Cpp_traverse_children(p, node, prefix, m2, i + 1)

\* a traversal that forgets the namespaces it is in
Cpp_traverse_namespace_without_prefix(p, node, prefix, m) ==
    Cpp_traverse_children(p, node, <<>>, m, 1)

Cpp_traverse_namespace(p, node, prefix, m) ==
    Cpp_traverse_children(p, node, prefix, m, 1)

\* CppParser.namespace_nodes
Cpp_namespace_nodes(p) == traverse_type(p.tree, Cpp_namespace_types).val

\* CppParser.class_nodes
Cpp_class_nodes(p) ==
    children_of_type(p.tree, Cpp_class_types)
    \o InDeclarationLists(Cpp_namespace_nodes(p), Cpp_class_types)

\* CppParser.method_nodes
Cpp_method_nodes(p) ==
    children_of_type(p.tree, Cpp_method_types)
    \o InDeclarationLists(Cpp_namespace_nodes(p), Cpp_method_types)

\* CppParser._get_signature: the text of the children before the body
Cpp_get_signature(p, method_node) ==
    LET i == IndexOf(Types(method_node.kids), "compound_statement")
        nodes == IF i = 0 THEN method_node.kids ELSE SubSeq(method_node.kids, 1, i - 1)
    IN span_select(p.file_bytes, nodes, FALSE)

\* the access annotation of a member of a field_declaration_list
\* (cpp_parser.py 272-279): the last access specifier before it, or private
RECURSIVE Cpp_access(_, _, _, _, _)
Cpp_access(p, kids, node, access, i) ==
    IF i > Len(kids) THEN <<>>
    ELSE IF kids[i].id = node.id THEN <<access>>
    ELSE Cpp_access(p, kids, node,
                    IF kids[i].type = "access_specifier"
                    THEN span_select(p.file_bytes, <<kids[i].kids[1]>>, FALSE)
                    ELSE access,
                    i + 1)

Cpp_access_annotations(p, node, parent_node) ==
    IF parent_node # NoneNode /\ parent_node.type = "field_declaration_list"
    THEN Cpp_access(p, parent_node.kids, node, <<"private">>, 1)
    ELSE <<>>

\* the annotations other than the access (cpp_parser.py 282-290)
RECURSIVE Cpp_specifiers(_, _, _)
Cpp_specifiers(p, kids, i) ==
    IF i > Len(kids) THEN <<>>
    ELSE IF kids[i].type = "function_declarator"
    THEN IF kids[i].kids # <<>>
            /\ kids[i].kids[Len(kids[i].kids)].type = "type_qualifier"
         THEN <<span_select(p.file_bytes,
                            <<kids[i].kids[Len(kids[i].kids)]>>, FALSE)>>
         ELSE <<>>
    ELSE (IF kids[i].type \in {"storage_class_specifier",
                               "virtual_function_specifier",
                               "explicit_function_specifier"}
          THEN <<span_select(p.file_bytes, <<kids[i]>>, FALSE)>>
          ELSE <<>>) \o Cpp_specifiers(p, kids, i + 1)

RECURSIVE Cpp_parse_method_node(_, _, _), Cpp_parse_class_node(_, _, _)

\* the nested class and method records of a body node
Cpp_nested(p, body_node) ==
    LET cs == IF body_node = NoneNode THEN <<>>
              ELSE children_of_type(body_node, Cpp_class_types)
        ms == IF body_node = NoneNode THEN <<>>
              ELSE children_of_type(body_node, Cpp_method_types)
    IN [classes |-> Collect([i \in DOMAIN cs |->
                               Cpp_parse_class_node(p, cs[i], body_node)]),
        methods |-> Collect([i \in DOMAIN ms |->
                               Cpp_parse_method_node(p, ms[i], body_node)])]

\* the result dictionary of CppParser._parse_method_node, from the records
\* nested in its body
Cpp_method_results(p, method_node, parent_arg, nested) ==
    LET span == Span(method_node)
        known == span \in DOMAIN p.node2namespace
        parent_node == IF known THEN p.node2parent[span] ELSE parent_arg
        body_node == child_by_field_name(method_node, "body")
        declarator == child_by_field_name(method_node, "declarator")
        exc == FirstOf(<<IF declarator = NoneNode THEN "AttributeError" ELSE "",
                         nested.classes.exc, nested.methods.exc>>)
    IN IF exc # "" THEN Raise(exc)
       ELSE Ok(
         [original_string |-> span_select(p.file_bytes, <<method_node>>, FALSE),
          byte_span |-> span,
          start_point |-> Point(p, method_node.srow, method_node.scol),
          end_point |-> Point(p, method_node.erow, method_node.ecol),
          signature |-> Cpp_get_signature(p, method_node),
          attributes |->
              [namespace_prefix |-> IF known THEN p.node2namespace[span] ELSE <<>>,
               annotations |-> Cpp_access_annotations(p, method_node, parent_node)
                               \o Cpp_specifiers(p, method_node.kids, 1),
               return_type |-> SelectOrEmpty(
                                   p, child_by_field_name(method_node, "type"), FALSE)],
          docstring |-> Cpp_docstring(
                            p, Cpp_get_docstring_before(p, method_node, parent_node)),
          body |-> SelectOrEmpty(p, body_node, FALSE),
          name |-> SelectOrEmpty(p, child_by_field_name(declarator, "declarator"),
                                 FALSE),
          syntax_pass |-> syntax_pass_or_false(method_node),
          classes |-> nested.classes.val,
          methods |-> nested.methods.val])

\* CppParser._parse_method_node
Cpp_parse_method_node(p, method_node, parent_arg) ==
    Cpp_method_results(
        p, method_node, parent_arg,
        Cpp_nested(p, child_by_field_name(method_node, "body")))

\* the field records of a class body (cpp_parser.py 369-405)
RECURSIVE Cpp_fields(_, _, _, _)
Cpp_fields(p, body_node, access, i) ==
    IF i > Len(body_node.kids) THEN <<>>
    ELSE
      LET field == body_node.kids[i]
          access1 == IF field.type = "access_specifier"
                     THEN span_select(p.file_bytes, <<field.kids[1]>>, FALSE)
                     ELSE access
          field_dict ==
              [original_string |-> span_select(p.file_bytes, <<field>>, FALSE),
               annotations |->
                   <<access1>>
                   \o (IF field.kids[1].type = "storage_class_specifier"
                       THEN <<span_select(p.file_bytes, <<field.kids[1]>>, FALSE)>>
                       ELSE <<>>),
               docstring |-> Cpp_docstring(
                                 p, Cpp_get_docstring_before(p, field, body_node)),
               type |-> SelectOrEmpty(p, child_by_field_name(field, "type"), FALSE),
               syntax_pass |-> syntax_pass_or_false(field)]
      IN (IF field.type = "field_declaration" THEN <<field_dict>> ELSE <<>>)
         \o Cpp_fields(p, body_node, access1, i + 1)

\* the result dictionary of CppParser._parse_class_node, from the records
\* nested in its body
Cpp_class_results(p, class_node, parent_arg, nested) ==
    LET span == Span(class_node)
        known == span \in DOMAIN p.node2namespace
        parent_node == IF known THEN p.node2parent[span] ELSE parent_arg
        body_node == child_by_field_name(class_node, "body")
        exc == FirstOf(<<nested.classes.exc, nested.methods.exc>>)
    IN IF exc # "" THEN Raise(exc)
       ELSE Ok(
         [original_string |-> span_select(p.file_bytes, <<class_node>>, FALSE),
          byte_span |-> span,
          start_point |-> Point(p, class_node.srow, class_node.scol),
          end_point |-> Point(p, class_node.erow, class_node.ecol),
          attributes |->
              [namespace_prefix |-> IF known THEN p.node2namespace[span] ELSE <<>>,
               annotations |-> Cpp_access_annotations(p, class_node, parent_node),
               fields |-> IF body_node = NoneNode THEN <<>>
                          ELSE Cpp_fields(p, body_node, <<"private">>, 1)],
          docstring |-> Cpp_docstring(
                            p, Cpp_get_docstring_before(p, class_node, parent_node)),
          name |-> SelectOrEmpty(p, child_by_field_name(class_node, "name"), FALSE),
          body |-> SelectOrEmpty(p, body_node, FALSE),
          syntax_pass |-> syntax_pass_or_false(class_node),
          classes |-> nested.classes.val,
          methods |-> nested.methods.val])

\* CppParser._parse_class_node
Cpp_parse_class_node(p, class_node, parent_arg) ==
    Cpp_class_results(
        p, class_node, parent_arg,
        Cpp_nested(p, child_by_field_name(class_node, "body")))

\* CppParser.schema (LanguageParser.schema)
Cpp_schema(p) ==
    LET ms == Cpp_method_nodes(p)
        cs == Cpp_class_nodes(p)
    IN base_schema(p, Cpp_file_docstring(p), Cpp_file_context(p),
                   [i \in DOMAIN ms |->
                      parse_node(ms[i], Cpp_method_types,
                                 Cpp_parse_method_node(p, ms[i], NoneNode))],
                   [i \in DOMAIN cs |->
                      parse_node(cs[i], Cpp_class_types,
                                 Cpp_parse_class_node(p, cs[i], NoneNode))])

-----------------------------------------------------------------------------
(* JSTSParser (parsers/jsts_parser.py) *)

JSTS_method_types ==
    {"function_declaration", "generator_function_declaration", "arrow_function",
     "function", "generator_function", "method_definition"}
JSTS_inside_method_types ==
    {"function", "generator_function", "method_definition", "arrow_function"}
JSTS_class_types == {"class_declaration", "class"}
JSTS_import_types == {"import_statement"}
JSTS_function_body_types ==
    {"statement_block", "binary_expression", "ternary_expression", "new_expression"}
JSTS_name_types ==
    {"identifier", "property_identifier", "number", "string",
     "computed_property_name"}
JSTS_declaration_types == {"variable_declaration", "lexical_declaration"}
JSTS_expression_types == {"expression_statement"}

\* node.text
Text(p, node) == Bytes(p.file_bytes, node.sb, node.eb)

\* the node at a path of child positions below the root
RECURSIVE NodeAt(_, _)
NodeAt(node, path) ==
    IF path = <<>> THEN node ELSE NodeAt(node.kids[Head(path)], Tail(path))

\* node.parent
ParentOf(p, node) == NodeAt(p.tree, SubSeq(node.id, 1, Len(node.id) - 1))

\* JSTSParser.get_first_child_of_type
get_first_child_of_type(parent, types) ==
    LET cs == children_of_type(parent, types)
    IN IF cs = <<>> THEN NoneNode ELSE cs[1]

\* self._node2declaration[span of each node] = root
RECURSIVE RegisterAll(_, _, _)
RegisterAll(m, nodes, root) ==
    IF nodes = <<>> THEN m
    ELSE RegisterAll(MapSet(m, Span(Head(nodes)), root), Tail(nodes), root)

\* the methods one declaration defines (jsts_parser.py 239-252)
JSTS_methods_of_value(value_node) ==
    IF value_node.type \in JSTS_inside_method_types THEN <<value_node>>
    ELSE IF value_node.type \in {"object", "parenthesized_expression"}
            /\ Len(value_node.kids) > 0
    THEN children_of_type(value_node, JSTS_inside_method_types)
         \o (IF /\ Len(value_node.kids) > 1
                /\ value_node.kids[2].type = "call_expression"
                /\ Len(value_node.kids[2].kids) > 0
                /\ value_node.kids[2].kids[1].type \in JSTS_inside_method_types
             THEN <<value_node.kids[2].kids[1]>>
             ELSE <<>>)
    ELSE <<>>

\* the value node of the first declarator of a declaration, or None
JSTS_value_node(declaration) ==
    LET declarators == children_of_type(declaration, {"variable_declarator"})
    IN IF declarators = <<>> THEN NoneNode
       ELSE child_by_field_name(declarators[1], "value")

JSTS_name_node(declaration) ==
    child_by_field_name(children_of_type(declaration, {"variable_declarator"})[1],
                        "name")

\* nothing found yet: the parser, whose maps the search fills, and the
\* methods (classes) found so far
NoMethods(p) == [p |-> p, methods |-> <<>>]
NoClasses(p) == [p |-> p, classes |-> <<>>]

\* JSTSParser.get_fn_in_declarations: the methods found are added to
\* acc.methods, and _node2name and _node2declaration of acc.p are filled
RECURSIVE JSTS_fn_in_declarations(_, _, _)
JSTS_fn_in_declarations(acc, declarations, i) ==
    IF i > Len(declarations) THEN acc
    ELSE
      LET declaration == declarations[i]
          value_node == JSTS_value_node(declaration)
          found == JSTS_methods_of_value(value_node)
      IN IF value_node = NoneNode
         THEN JSTS_fn_in_declarations(acc, declarations, i + 1)
         ELSE JSTS_fn_in_declarations(
                  [p |-> [acc.p EXCEPT
                            !.node2name =
                                MapSet(@, Span(value_node),
                                       Text(acc.p, JSTS_name_node(declaration))),
                            !.node2declaration = RegisterAll(@, found, declaration)],
                   methods |-> acc.methods \o found],
                  declarations, i + 1)

get_fn_in_declarations(acc, node) ==
    JSTS_fn_in_declarations(acc, children_of_type(node, JSTS_declaration_types), 1)

\* the function an expression statement assigns, if any
JSTS_assigned_fn(expression) ==
    LET assignments == children_of_type(expression, {"assignment_expression"})
        right_node == IF assignments = <<>> THEN NoneNode
                      ELSE child_by_field_name(assignments[1], "right")
    IN IF right_node # NoneNode /\ right_node.type \in JSTS_inside_method_types
       THEN <<right_node>> ELSE <<>>

\* JSTSParser.get_fn_in_expressions
RECURSIVE JSTS_fn_in_expressions(_, _, _)
JSTS_fn_in_expressions(acc, expressions, i) ==
    IF i > Len(expressions) THEN acc
    ELSE JSTS_fn_in_expressions(
             [p |-> [acc.p EXCEPT !.node2declaration =
                         RegisterAll(@, JSTS_assigned_fn(expressions[i]),
                                     expressions[i])],
              methods |-> acc.methods \o JSTS_assigned_fn(expressions[i])],
             expressions, i + 1)

get_fn_in_expressions(acc, node) ==
    JSTS_fn_in_expressions(acc, children_of_type(node, JSTS_expression_types), 1)

\* the methods of one export statement (jsts_parser.py 287-291): those found
\* in its declarations and expressions, and its children of method type
JSTS_exported_methods(found, export) ==
    found.methods \o children_of_type(export, JSTS_method_types)

\* the methods of one export statement registered in _node2export
JSTS_register_exported_methods(acc, found, export) ==
    [p |-> [found.p EXCEPT !.node2export =
                RegisterAll(@, JSTS_exported_methods(found, export), export)],
     methods |-> acc.methods \o JSTS_exported_methods(found, export)]

\* JSTSParser.get_fn_in_exports
RECURSIVE JSTS_fn_in_exports(_, _, _)
JSTS_fn_in_exports(acc, exports, i) ==
    IF i > Len(exports) THEN acc
    ELSE JSTS_fn_in_exports(
             JSTS_register_exported_methods(
                 acc,
                 get_fn_in_expressions(
                     get_fn_in_declarations(NoMethods(acc.p), exports[i]),
                     exports[i]),
                 exports[i]),
             exports, i + 1)

get_fn_in_exports(acc, node) ==
    JSTS_fn_in_exports(acc, children_of_type(node, {"export_statement"}), 1)

\* JSTSParser.get_inside_method
get_inside_method(p, node) ==
    get_fn_in_exports(
        get_fn_in_expressions(get_fn_in_declarations(NoMethods(p), node), node),
        node)

\* the classes one declaration defines (jsts_parser.py 328-334)
JSTS_classes_of_value(value_node) ==
    IF value_node.type \in JSTS_class_types THEN <<value_node>>
    ELSE IF value_node.type = "parenthesized_expression" /\ Len(value_node.kids) > 0
    THEN children_of_type(value_node, JSTS_class_types)
    ELSE <<>>

\* the classes of one declaration
JSTS_declared_classes(declaration) ==
    IF JSTS_value_node(declaration) = NoneNode THEN <<>>
    ELSE JSTS_classes_of_value(JSTS_value_node(declaration))

\* JSTSParser.get_class_in_declaration
RECURSIVE JSTS_class_in_declarations(_, _, _)
JSTS_class_in_declarations(acc, declarations, i) ==
    IF i > Len(declarations) THEN acc
    ELSE JSTS_class_in_declarations(
             [p |-> [acc.p EXCEPT !.node2declaration =
                         RegisterAll(@, JSTS_declared_classes(declarations[i]),
                                     declarations[i])],
              classes |-> acc.classes \o JSTS_declared_classes(declarations[i])],
             declarations, i + 1)

get_class_in_declaration(acc, node) ==
    JSTS_class_in_declarations(acc, children_of_type(node, JSTS_declaration_types), 1)

\* the classes of one export statement (jsts_parser.py 363-366)
JSTS_exported_classes(found, export) ==
    found.classes \o children_of_type(export, JSTS_class_types)

\* the classes of one export statement registered in _node2export
JSTS_register_exported_classes(acc, found, export) ==
    [p |-> [found.p EXCEPT !.node2export =
                RegisterAll(@, JSTS_exported_classes(found, export), export)],
     classes |-> acc.classes \o JSTS_exported_classes(found, export)]

\* the loop over export statements of JSTSParser.get_inside_class
RECURSIVE JSTS_class_in_exports(_, _, _)
JSTS_class_in_exports(acc, exports, i) ==
    IF i > Len(exports) THEN acc
    ELSE JSTS_class_in_exports(
             JSTS_register_exported_classes(
                 acc, get_class_in_declaration(NoClasses(acc.p), exports[i]),
                 exports[i]),
             exports, i + 1)

\* JSTSParser.get_inside_class
get_inside_class(p, node) ==
    JSTS_class_in_exports(get_class_in_declaration(NoClasses(p), node),
                          children_of_type(node, {"export_statement"}), 1)

\* sorted(nodes, key=lambda x: x.start_byte): a stable insertion sort
RECURSIVE InsertByStart(_, _), SortByStart(_)
InsertByStart(sorted, node) ==
    IF sorted = <<>> THEN <<node>>
    ELSE IF sorted[Len(sorted)].sb <= node.sb THEN Append(sorted, node)
    ELSE Append(InsertByStart(SubSeq(sorted, 1, Len(sorted) - 1), node),
                sorted[Len(sorted)])

SortByStart(nodes) ==
    IF nodes = <<>> THEN <<>>
    ELSE InsertByStart(SortByStart(SubSeq(nodes, 1, Len(nodes) - 1)),
                       nodes[Len(nodes)])

\* the nodes with children, sorted by start byte (jsts_parser.py 384, 394)
JSTS_sorted_nodes(nodes) == SortByStart(WithChildren(nodes))

\* method_nodes that reports an assigned function only the first time it is
\* registered
JSTS_method_nodes_unregistered(p, inside) ==
    [p |-> inside.p,
     nodes |-> JSTS_sorted_nodes(
                   children_of_type(p.tree, JSTS_method_types)
                   \o SelectSeq(inside.methods,
                                LAMBDA n : Span(n) \notin DOMAIN p.node2declaration))]

\* JSTSParser.method_nodes, from the outcome of get_inside_method
JSTS_method_nodes_with(p, inside) ==
    [p |-> inside.p,
     nodes |-> JSTS_sorted_nodes(children_of_type(p.tree, JSTS_method_types)
                                 \o inside.methods)]

\* JSTSParser.method_nodes
JSTS_method_nodes(p) == JSTS_method_nodes_with(p, get_inside_method(p, p.tree))

\* JSTSParser.class_nodes, from the outcome of get_inside_class
JSTS_class_nodes_with(p, inside) ==
    [p |-> inside.p,
     nodes |-> JSTS_sorted_nodes(children_of_type(p.tree, JSTS_class_types)
                                 \o inside.classes)]

\* JSTSParser.class_nodes
JSTS_class_nodes(p) == JSTS_class_nodes_with(p, get_inside_class(p, p.tree))

\* the run of comments the file docstring is made of (jsts_parser.py 421-428)
RECURSIVE JSTS_docstring_nodes(_, _, _)
JSTS_docstring_nodes(kids, previous_child, i) ==
    IF i > Len(kids) THEN <<>>
    ELSE IF /\ kids[i].type = "comment"
            /\ previous_child.type = "comment"
            /\ kids[i].srow - previous_child.erow <= 1
    THEN <<kids[i]>> \o JSTS_docstring_nodes(kids, kids[i], i + 1)
    ELSE JSTS_docstring_nodes(kids, previous_child, i + 1)

\* JSTSParser.file_docstring
JSTS_file_docstring(p) ==
    IF p.tree.kids = <<>> THEN <<>>
    ELSE LET first == p.tree.kids[1]
             docstring == span_select(p.file_bytes, <<first>>, FALSE)
         IN IF first.type = "comment" /\ docstring[1] \in {"/*", "/**"}
            THEN strip_c_style_comment_delimiters(docstring)
            ELSE strip_c_style_comment_delimiters(
                     span_select(p.file_bytes,
                                 IF first.type = "comment"
                                 THEN JSTS_docstring_nodes(p.tree.kids, first, 1)
                                 ELSE <<>>,
                                 FALSE))

\* JSTSParser.file_context
JSTS_file_context(p) ==
    select(p.file_bytes, children_of_type(p.tree, JSTS_import_types), FALSE)

\* JSTSParser.get_default_params: the entry one required_parameter adds
JSTS_default_param(p, param_node) ==
    LET ids == children_of_type(param_node, {"identifier"})
        tys == children_of_type(param_node, {"type_annotation"})
        others == SelectSeq(param_node.kids,
                            LAMBDA c : c.type \notin {"identifier", "type_annotation"})
        last(nodes) == IF nodes = <<>> THEN <<>>
                       ELSE span_select(p.file_bytes, <<nodes[Len(nodes)]>>, FALSE)
    IN <<last(ids) \o last(tys), last(others)>>

\* JSTSParser.tree_recurse: the leaves before the body, whether the body was
\* reached, and the required_parameter nodes met on the way
RECURSIVE tree_recurse(_), tree_recurse_children(_, _, _)
tree_recurse(root_node) ==
    IF root_node.kids = <<>>
    THEN [leaf_nodes |-> <<root_node>>, end_found |-> FALSE, params |-> <<>>]
    ELSE tree_recurse_children(root_node.kids,
                               child_by_field_name(root_node, "body"), 1)

tree_recurse_children(kids, body_node, i) ==
    IF i > Len(kids)
    THEN [leaf_nodes |-> <<>>, end_found |-> FALSE, params |-> <<>>]
    ELSE IF body_node # NoneNode /\ body_node.id = kids[i].id
    THEN [leaf_nodes |-> <<>>, end_found |-> TRUE, params |-> <<>>]
    ELSE LET here == IF kids[i].type = "required_parameter" THEN <<kids[i]>>
                     ELSE <<>>
             a == tree_recurse(kids[i])
             b == tree_recurse_children(kids, body_node, i + 1)
         IN IF a.end_found
            THEN [leaf_nodes |-> a.leaf_nodes, end_found |-> TRUE,
                  params |-> here \o a.params]
            ELSE [leaf_nodes |-> a.leaf_nodes \o b.leaf_nodes,
                  end_found |-> b.end_found,
                  params |-> here \o a.params \o b.params]

\* the dict the required_parameter nodes fill, in order
RECURSIVE JSTS_default_params(_, _, _)
JSTS_default_params(p, params, acc) ==
    IF params = <<>> THEN acc
    ELSE LET e == JSTS_default_param(p, Head(params))
         IN JSTS_default_params(p, Tail(params), DictSet(acc, e[1], e[2]))

\* JSTSParser.get_signature_default_args
get_signature_default_args(p, method_node) ==
    LET r == tree_recurse(method_node)
    IN [signature |->
            Strip(SelectSeq(span_select(p.file_bytes, r.leaf_nodes, FALSE),
                            LAMBDA a : a # "=>")),
        default_arguments |-> JSTS_default_params(p, r.params, <<>>)]

\* JSTSParser.get_docstring: the comment right before the node among the
\* children of its parent, unless it is the first node of the file
get_docstring(p, parent_arg, node_to_compare) ==
    LET parent_node == IF node_to_compare.ptype = "export_statement"
                       THEN ParentOf(p, node_to_compare)
                       ELSE parent_arg
        location == IndexOf([k \in DOMAIN parent_node.kids |-> parent_node.kids[k].id],
                            node_to_compare.id)
    IN IF location = 0 THEN Raise("ValueError")
       ELSE IF /\ location > 1
               /\ parent_node.kids[location - 1].type = "comment"
               /\ ~nodes_are_equal(parent_node.kids[location - 1], p.tree.kids[1])
       THEN Ok(strip_c_style_comment_delimiters(
                   span_select(p.file_bytes, <<parent_node.kids[location - 1]>>,
                               FALSE)))
       ELSE Ok(<<>>)

\* JSTSParser._extract_class_definition
extract_class_definition(p, class_node) ==
    span_select(p.file_bytes,
                Slice(class_node.kids, 0,
                      FirstIndexOfType(class_node.kids, "class_heritage", 1) + 1),
                TRUE)

\* the keys of attributes a method record has (jsts_parser.py 524-541)
JSTS_method_attributes(p, method_node) ==
    LET children_types == Types(method_node.kids)
        num_decorators == Len(SelectSeq(children_types, LAMBDA t : t = "decorator"))
        named == SelectSeq([i \in DOMAIN children_types |-> i],
                           LAMBDA i : children_types[i] \in JSTS_name_types)
        name_idx == IF named = <<>> THEN -1 ELSE named[1] - 1
    IN [name_idx |-> name_idx,
        attributes |->
            (IF num_decorators > 0
             THEN "decorators" :> select(p.file_bytes,
                                         Slice(method_node.kids, 0, num_decorators),
                                         FALSE)
             ELSE <<>>)
            @@ (IF name_idx > num_decorators
                THEN "keywords" :> span_select(p.file_bytes,
                                               Slice(method_node.kids, num_decorators,
                                                     name_idx), FALSE)
                ELSE <<>>)]

\* the results dictionary of JSTSParser._parse_method_node: root_or_node is
\* method_root_node or method_node, nested the records of the methods in
\* the body with the parser after they were parsed
JSTS_method_results(p, method_node, root_or_node, sig, at, docstring, nested) ==
    LET span == Span(method_node)
        body_text_node == get_first_child_of_type(method_node,
                                                  JSTS_function_body_types)
        name0 == IF span \in DOMAIN p.node2name THEN p.node2name[span]
                 ELSE SelectOrEmpty(p, child_by_field_name(method_node, "name"),
                                    FALSE)
        record ==
            [original_string |-> IF root_or_node.id # method_node.id
                                 THEN Text(p, root_or_node)
                                 ELSE span_select(p.file_bytes, <<method_node>>, FALSE),
             byte_span |-> span,
             start_point |-> Point(p, method_node.srow, method_node.scol),
             end_point |-> Point(p, method_node.erow, method_node.ecol),
             signature |-> sig.signature,
             default_arguments |-> sig.default_arguments,
             body |-> span_select(p.file_bytes, <<body_text_node>>, FALSE),
             attributes |-> at.attributes,
             name |-> IF name0 = <<>> /\ at.name_idx > 0
                      THEN span_select(p.file_bytes,
                                       <<method_node.kids[at.name_idx + 1]>>, FALSE)
                      ELSE name0,
             docstring |-> docstring.val,
             syntax_pass |-> syntax_pass_or_false(method_node)]
    IN IF body_text_node = NoneNode THEN [p |-> p, r |-> Raise("AttributeError")]
       ELSE IF Raised(docstring) THEN [p |-> p, r |-> docstring]
       ELSE IF Raised(nested.r) THEN nested
       ELSE [p |-> nested.p,
             r |-> Ok(IF nested.r.val # <<>>
                      THEN record @@ ("methods" :> nested.r.val)
                      ELSE record)]

\* method_root_node or method_node (jsts_parser.py 489-498): the export
\* statement or the declaration registered for the node, or the node
JSTS_root_or_node(p, node) ==
    IF Span(node) \in DOMAIN p.node2export THEN p.node2export[Span(node)]
    ELSE IF Span(node) \in DOMAIN p.node2declaration
    THEN p.node2declaration[Span(node)]
    ELSE node

RECURSIVE JSTS_parse_method_node(_, _, _), JSTS_parse_methods(_, _, _, _, _)
RECURSIVE JSTS_parse_methods_after(_, _, _, _, _)

\* [self._parse_method_node(c, parent_node) for c in nodes], the parser's
\* maps growing from one call to the next
JSTS_parse_methods(p, nodes, parent_node, acc, i) ==
    IF i > Len(nodes) THEN [p |-> p, r |-> Ok(acc)]
    ELSE JSTS_parse_methods_after(
             JSTS_parse_method_node(p, nodes[i], parent_node),
             nodes, parent_node, acc, i)

\* the comprehension after nodes[i] was parsed with outcome a
JSTS_parse_methods_after(a, nodes, parent_node, acc, i) ==
    IF Raised(a.r) THEN a
    ELSE JSTS_parse_methods(a.p, nodes, parent_node, Append(acc, a.r.val), i + 1)

\* the methods of a body, from the outcome of get_inside_method
\* (jsts_parser.py 552-560)
JSTS_parse_inside(inside, body_node) ==
    JSTS_parse_methods(
        inside.p,
        SortByStart(children_of_type(body_node, JSTS_method_types)
                    \o inside.methods),
        body_node, <<>>, 1)

\* the records of the methods in the body of a method
JSTS_nested_methods(p, body_node) ==
    IF body_node = NoneNode THEN [p |-> p, r |-> Ok(<<>>)]
    ELSE JSTS_parse_inside(get_inside_method(p, body_node), body_node)

\* JSTSParser._parse_method_node once method_root_node is known
JSTS_parse_method(p, method_node, parent_node, root_or_node) ==
    JSTS_method_results(
        p, method_node, root_or_node,
        get_signature_default_args(p, root_or_node),
        JSTS_method_attributes(p, method_node),
        get_docstring(p, IF parent_node # NoneNode THEN parent_node ELSE p.tree,
                      root_or_node),
        JSTS_nested_methods(p, child_by_field_name(method_node, "body")))

\* JSTSParser._parse_method_node: the record and the parser after the call
JSTS_parse_method_node(p, method_node, parent_node) ==
    JSTS_parse_method(p, method_node, parent_node,
                      JSTS_root_or_node(p, method_node))

\* the results dictionary of JSTSParser._parse_class_node, from the
\* docstring and the records of the methods with the parser after them
JSTS_class_results(p, class_node, docstring, methods) ==
    LET span == Span(class_node)
        exported == span \in DOMAIN p.node2export
        class_root_node == JSTS_root_or_node(p, class_node)
        rooted == class_root_node.id # class_node.id
        name0 == SelectOrEmpty(p, child_by_field_name(class_node, "name"), FALSE)
        declarators == IF rooted
                       THEN children_of_type(class_root_node, {"variable_declarator"})
                       ELSE <<>>
    IN IF Raised(docstring) THEN [p |-> p, r |-> docstring]
       ELSE IF rooted /\ name0 = <<>> /\ declarators = <<>>
       THEN [p |-> p, r |-> Raise("IndexError")]
       ELSE IF Raised(methods.r) THEN methods
       ELSE [p |-> methods.p,
             r |-> Ok(
               [original_string |->
                    span_select(p.file_bytes,
                                <<IF exported THEN class_root_node ELSE class_node>>,
                                FALSE),
                definition |-> extract_class_definition(p, class_node),
                byte_span |-> span,
                start_point |-> Point(p, class_node.srow, class_node.scol),
                end_point |-> Point(p, class_node.erow, class_node.ecol),
                class_docstring |-> docstring.val,
                attributes |->
                    [decorators |-> select(p.file_bytes,
                                           children_of_type(class_node, {"decorator"}),
                                           FALSE),
                     heritage |-> select(p.file_bytes,
                                         children_of_type(class_node,
                                                          {"class_heritage"}), FALSE),
                     expression |-> select(
                                        p.file_bytes,
                                        children_of_type(
                                            class_node.kids[Len(class_node.kids)],
                                            {"public_field_definition"}), FALSE)],
                name |-> IF rooted /\ name0 = <<>>
                         THEN SelectOrEmpty(
                                  p, child_by_field_name(declarators[1], "name"), FALSE)
                         ELSE name0,
                syntax_pass |-> syntax_pass_or_false(class_node),
                methods |-> methods.r.val])]

\* the method definitions in the class bodies of a class node
JSTS_class_method_nodes(class_node) ==
    ExtendAll(children_of_type(class_node, {"class_body"}),
              LAMBDA b : children_of_type(b, {"method_definition"}))

\* JSTSParser._parse_class_node: the record and the parser after the call
JSTS_parse_class_node(p, class_node) ==
    JSTS_class_results(
        p, class_node,
        get_docstring(p, p.tree, JSTS_root_or_node(p, class_node)),
        JSTS_parse_methods(p, JSTS_class_method_nodes(class_node),
                           get_first_child_of_type(class_node, {"class_body"}),
                           <<>>, 1))

\* [self.parse_class_node(c) for c in nodes]
RECURSIVE JSTS_parse_classes(_, _, _, _), JSTS_parse_classes_after(_, _, _, _)
JSTS_parse_classes(p, nodes, acc, i) ==
    IF i > Len(nodes) THEN [p |-> p, r |-> Ok(acc)]
    ELSE IF nodes[i].type \notin JSTS_class_types
    THEN [p |-> p, r |-> Raise("AssertionError")]
    ELSE JSTS_parse_classes_after(JSTS_parse_class_node(p, nodes[i]), nodes, acc, i)

\* the comprehension after nodes[i] was parsed with outcome a
JSTS_parse_classes_after(a, nodes, acc, i) ==
    IF Raised(a.r) THEN a
    ELSE JSTS_parse_classes(a.p, nodes, Append(acc, a.r.val), i + 1)

\* the dictionary LanguageParser.schema returns, from the outcomes of its
\* two comprehensions
JSTS_schema_results(p, ms, cs) ==
    IF Raised(ms.r) THEN ms
    ELSE IF Raised(cs.r) THEN cs
    ELSE [p |-> cs.p,
          r |-> Ok([file_hash |-> static_hash(p.file_bytes),
                    file_docstring |-> JSTS_file_docstring(p),
                    contexts |-> JSTS_file_context(p),
                    methods |-> ms.r.val,
                    classes |-> cs.r.val])]

\* [self.parse_class_node(c) for c in self.class_nodes]
JSTS_parse_class_nodes(cn) == JSTS_parse_classes(cn.p, cn.nodes, <<>>, 1)

\* [self.parse_method_node(c) for c in self.method_nodes]
JSTS_parse_method_nodes(mn) ==
    JSTS_parse_methods(mn.p, mn.nodes, NoneNode, <<>>, 1)

\* LanguageParser.schema once the methods are parsed
JSTS_schema_after_methods(p, ms) ==
    JSTS_schema_results(p, ms, JSTS_parse_class_nodes(JSTS_class_nodes(ms.p)))

\* JSTSParser.schema (LanguageParser.schema): the schema and the parser
\* after the read
JSTS_schema(p) ==
    JSTS_schema_after_methods(p, JSTS_parse_method_nodes(JSTS_method_nodes(p)))

-----------------------------------------------------------------------------

(* Python source files *)

PyParameters(with_default) ==
    Node("parameters",
         <<Tk0("(", "("), Tk0("identifier", "x")>>
         \o (IF with_default
             THEN <<Tk0(",", ","),
                    Node("default_parameter",
                         <<Tk("identifier", "y"), Tk0("=", "="),
                           Tk0("integer", "1")>>)>>
             ELSE <<>>)
         \o <<Tk0(")", ")")>>)

PyReturn(ind) ==
    Node("return_statement", <<TkNl("return", "return", ind), Tk("identifier", "x")>>)

PyDocstring(ind) ==
    Node("expression_statement", <<TkNl("string", "'doc'", ind)>>)

PyAssignment(ind) ==
    Node("expression_statement",
         <<Node("assignment", <<TkNl("identifier", "v", ind), Tk("=", "="),
                                Tk("integer", "1")>>)>>)

\* def name(x[, y=1]): body
PyFunction(name, with_default, body, ind) ==
    Node("function_definition",
         <<TkNl("def", "def", ind), Tk("identifier", name),
           PyParameters(with_default), Tk0(":", ":"), Node("block", body)>>)

\* def name(x: body, the closing parenthesis inserted by error recovery
PyFunctionUnclosed(name, ind) ==
    Node("function_definition",
         <<TkNl("def", "def", ind), Tk("identifier", name),
           Node("parameters", <<Tk0("(", "("), Tk0("identifier", "x"),
                                Missing(")")>>),
           Tk0(":", ":"), Node("block", <<PyReturn(ind + 4)>>)>>)

\* @d on the line before a definition
PyDecorated(defn, ind) ==
    Node("decorated_definition",
         <<Node("decorator", <<TkNl("@", "@", ind), Tk0("identifier", "d")>>),
           defn>>)

\* class Name: body
PyClass(name, body, ind) ==
    Node("class_definition",
         <<TkNl("class", "class", ind), Tk("identifier", name), Tk0(":", ":"),
           Node("block", body)>>)

\* class Name body, without the colon
PyClassNoColon(name, body, ind) ==
    Node("class_definition",
         <<TkNl("class", "class", ind), Tk("identifier", name),
           Node("block", body)>>)

PyImport == Node("import_statement", <<TkNl("import", "import", 0),
                                        Tk("dotted_name", "os")>>)

PythonItems ==
    { PyFunction("f", TRUE, <<PyDocstring(4), PyReturn(4)>>, 0),
      PyClass("A", <<PyDocstring(4), PyAssignment(4),
                     PyFunction("m", FALSE, <<PyReturn(8)>>, 4)>>, 0),
      PyDecorated(PyFunction("g", FALSE, <<PyReturn(4)>>, 0), 0),
      Deep(PyFunction("h", FALSE, <<PyReturn(4)>>, 0)),
      PyFunctionUnclosed("u", 0),
      PyClassNoColon("B", <<PyAssignment(4)>>, 0),
      PyImport }

-----------------------------------------------------------------------------
(* C# source files *)

CsComment(ind) == Leaf("comment", <<"///", " ", "doc">>, TRUE, ind)

CsBlock == Node("block", <<Tk("{", "{"), Tk("}", "}")>>)

CsParameterList ==
    Node("parameter_list",
         <<Tk0("(", "("),
           Node("parameter", <<Tk0("predefined_type", "int"),
                               Tk("identifier", "a")>>),
           Tk0(")", ")")>>)

\* public void Name(int a) { }
CsMethod(name, ind) ==
    Node("method_declaration",
         <<Node("modifier", <<TkNl("public", "public", ind)>>),
           Fld("type", Tk("predefined_type", "void")),
           Fld("name", Tk("identifier", name)),
           Fld("parameters", CsParameterList),
           Fld("body", CsBlock)>>)

\* a method whose parameter list was lost to error recovery
CsMethodNoParameters(name, ind) ==
    Node("method_declaration",
         <<Node("modifier", <<TkNl("public", "public", ind)>>),
           Fld("type", Tk("predefined_type", "void")),
           Fld("name", Tk("identifier", name)),
           Fld("body", CsBlock)>>)

\* int x;
CsField(ind) ==
    Node("field_declaration",
         <<Node("variable_declaration",
                <<Fld("type", TkNl("predefined_type", "int", ind)),
                  Node("variable_declarator", <<Tk("identifier", "x")>>)>>),
           Tk0(";", ";")>>)

\* int P { get; }
CsProperty(ind) ==
    Node("property_declaration",
         <<Fld("type", TkNl("predefined_type", "int", ind)),
           Fld("name", Tk("identifier", "P")),
           Fld("accessors", Node("accessor_list",
                                 <<Tk("{", "{"), Tk("get", "get"), Tk0(";", ";"),
                                   Tk("}", "}")>>))>>)

\* class Name { members }
CsClass(name, members, close, ind) ==
    Node("class_declaration",
         <<TkNl("class", "class", ind), Fld("name", Tk("identifier", name)),
           Fld("body", Node("declaration_list",
                            <<Tk("{", "{")>> \o members \o <<close>>))>>)

\* struct { members }: a declaration without a name
CsStructNoName(members, ind) ==
    Node("struct_declaration",
         <<TkNl("struct", "struct", ind),
           Fld("body", Node("declaration_list",
                            <<Tk("{", "{")>> \o members
                            \o <<TkNl("}", "}", ind)>>))>>)

\* namespace Name { members }
CsNamespace(name, members) ==
    Node("namespace_declaration",
         <<TkNl("namespace", "namespace", 0), Fld("name", Tk("identifier", name)),
           Fld("body", Node("declaration_list",
                            <<Tk("{", "{")>> \o members \o <<TkNl("}", "}", 0)>>))>>)

CsUsing == Node("using_directive", <<TkNl("using", "using", 0),
                                     Tk("identifier", "System"), Tk0(";", ";")>>)

CSharpItems ==
    { CsClass("A", <<CsComment(2), CsMethod("M", 2), CsField(2), CsProperty(2)>>,
              TkNl("}", "}", 0), 0),
      CsNamespace("N", <<CsClass("B", <<CsMethod("M", 4)>>, TkNl("}", "}", 2), 2)>>),
      CsClass("C", <<CsMethodNoParameters("M", 2)>>, TkNl("}", "}", 0), 0),
      CsClass("D", <<Deep(CsMethod("M", 2))>>, TkNl("}", "}", 0), 0),
      CsClass("E", <<CsMethod("M", 2)>>, Missing("}"), 0),
      CsStructNoName(<<CsField(2)>>, 0),
      CsUsing,
      CsComment(0),
      CsNamespace("N", <<CsNamespace("P", <<CsClass("F", <<CsMethod("M", 4)>>,
                                                    TkNl("}", "}", 2), 2)>>)>>) }

-----------------------------------------------------------------------------
(* C++ source files *)

CppComment(ind) == Leaf("comment", <<"//", " ", "doc">>, TRUE, ind)

CppBody == Node("compound_statement", <<Tk("{", "{"), Tk("}", "}")>>)

\* int name() { }
CppFunction(name, ind) ==
    Node("function_definition",
         <<Fld("type", TkNl("primitive_type", "int", ind)),
           Fld("declarator",
               Node("function_declarator",
                    <<Fld("declarator", Tk("identifier", name)),
                      Node("parameter_list", <<Tk0("(", "("), Tk0(")", ")")>>)>>)),
           Fld("body", CppBody)>>)

\* a function definition whose declarator was lost to error recovery
CppFunctionNoDeclarator(ind) ==
    Node("function_definition",
         <<Fld("type", TkNl("primitive_type", "int", ind)), Fld("body", CppBody)>>)

CppAccess(ind) ==
    Node("access_specifier", <<TkNl("public", "public", ind), Tk0(":", ":")>>)

\* int x;
CppField(ind) ==
    Node("field_declaration",
         <<Fld("type", TkNl("primitive_type", "int", ind)),
           Fld("declarator", Tk("field_identifier", "x")), Tk0(";", ";")>>)

\* class Name { members }
CppClass(name, members, close, ind) ==
    Node("class_specifier",
         <<TkNl("class", "class", ind), Fld("name", Tk("type_identifier", name)),
           Fld("body", Node("field_declaration_list",
                            <<Tk("{", "{")>> \o members \o <<close>>))>>)

\* namespace Name { members }
CppNamespace(name, members) ==
    Node("namespace_definition",
         <<TkNl("namespace", "namespace", 0), Fld("name", Tk("identifier", name)),
           Fld("body", Node("declaration_list",
                            <<Tk("{", "{")>> \o members \o <<TkNl("}", "}", 0)>>))>>)

CppInclude == Node("preproc_include", <<TkNl("#include", "#include", 0),
                                        Tk("system_lib_string", "<a.h>")>>)

CppItems ==
    { CppFunction("f", 1),
      CppClass("A", <<CppField(2), CppAccess(0), CppComment(2), CppFunction("m", 2)>>,
               TkNl("}", "}", 0), 0),
      CppNamespace("N", <<CppClass("B", <<CppFunction("m", 4)>>,
                                   TkNl("}", "}", 2), 2)>>),
      CppFunctionNoDeclarator(0),
      Deep(CppFunction("h", 0)),
      CppClass("E", <<CppField(2)>>, Missing("}"), 0),
      CppInclude,
      CppComment(0),
      CppNamespace("N", <<CppNamespace("P", <<CppFunction("g", 4)>>)>>) }

-----------------------------------------------------------------------------
(* JavaScript / TypeScript source files *)

JsComment == Leaf("comment", <<"//", " ", "doc">>, TRUE, 0)

JsParameters == Node("formal_parameters", <<Tk("(", "("), Tk0(")", ")")>>)

\* { return 1 ; } over three lines
JsBlock(ind) ==
    Node("statement_block",
         <<Tk("{", "{"),
           Node("return_statement",
                <<TkNl("return", "return", ind + 2), Tk("number", "1"),
                  Tk(";", ";")>>),
           TkNl("}", "}", ind)>>)

\* (a, b = 1): a parameter without and a parameter with a default value
JsDefaultParameters ==
    Node("formal_parameters",
         <<Tk("(", "("),
           Node("required_parameter", <<Tk0("identifier", "a")>>),
           Tk0(",", ","),
           Node("required_parameter",
                <<Tk("identifier", "b"), Tk("=", "="), Tk("number", "1")>>),
           Tk0(")", ")")>>)

\* (c = d): a parameter whose default value is a name
JsNamedDefaultParameters ==
    Node("formal_parameters",
         <<Tk("(", "("),
           Node("required_parameter",
                <<Tk0("identifier", "c"), Tk("=", "="), Tk("identifier", "d")>>),
           Tk0(")", ")")>>)

\* function name(...) { ... }, on a new line or after a keyword
JsFunctionWith(name, nl, parameters) ==
    Node("function_declaration",
         <<Leaf("function", <<"function">>, nl, IF nl THEN 0 ELSE 1),
           Fld("name", Tk("identifier", name)),
           Fld("parameters", parameters), Fld("body", JsBlock(0))>>)

\* function name() { ... }
JsFunction(name, nl) == JsFunctionWith(name, nl, JsParameters)

\* const name = () => { ... };
JsArrowConst(name) ==
    Node("lexical_declaration",
         <<TkNl("const", "const", 0),
           Node("variable_declarator",
                <<Fld("name", Tk("identifier", name)), Tk("=", "="),
                  Fld("value",
                      Node("arrow_function",
                           <<Fld("parameters", JsParameters), Tk("=>", "=>"),
                             Fld("body", JsBlock(0))>>))>>),
           Tk0(";", ";")>>)

\* name() { ... } in a class body
JsMethodDefinition(name, ind) ==
    Node("method_definition",
         <<Fld("name", TkNl("property_identifier", name, ind)),
           Fld("parameters", JsParameters), Fld("body", JsBlock(ind))>>)

\* class Name { m() { ... } }
JsClass(name, nl) ==
    Node("class_declaration",
         <<Leaf("class", <<"class">>, nl, IF nl THEN 0 ELSE 1),
           Fld("name", Tk("identifier", name)),
           Fld("body", Node("class_body",
                            <<Tk("{", "{"), JsMethodDefinition("m", 2),
                              TkNl("}", "}", 0)>>))>>)

\* export <declaration>
JsExport(declaration) ==
    Node("export_statement", <<TkNl("export", "export", 0), declaration>>)

\* var a=1; as a minifier writes it
JsMinifiedVar ==
    Node("variable_declaration",
         <<TkNl("var", "var", 0),
           Node("variable_declarator",
                <<Fld("name", Tk("identifier", "a")), Tk0("=", "="),
                  Fld("value", Tk0("number", "1"))>>),
           Tk0(";", ";")>>)

JsImport == Node("import_statement", <<TkNl("import", "import", 0),
                                       Tk("string", "'m'"), Tk0(";", ";")>>)

JSTSItems ==
    { JsFunctionWith("f", TRUE, JsDefaultParameters),
      JsExport(JsFunctionWith("g", FALSE, JsNamedDefaultParameters)),
      JsArrowConst("h"),
      JsClass("A", TRUE),
      JsExport(JsClass("B", FALSE)),
      JsMinifiedVar,
      JsImport,
      JsComment }

-----------------------------------------------------------------------------
(* The parser instance: construction, update and schema *)

Langs == {"python", "typescript", "cpp", "csharp", "ruby"}

\* the root node type of each grammar
RootType(lang) ==
    CASE lang = "python" -> "module"
      [] lang = "csharp" -> "compilation_unit"
      [] lang = "cpp" -> "translation_unit"
      [] OTHER -> "program"

Items(lang) ==
    CASE lang = "python" -> PythonItems
      [] lang = "typescript" -> JSTSItems
      [] lang = "cpp" -> CppItems
      [] lang = "csharp" -> CSharpItems
      [] OTHER -> RubyItems

\* the source files of a language: up to MaxItems top-level items
Files(lang) == UNION {[1..n -> Items(lang)] : n \in 0..MaxItems}

\* the files whose text is one top-level item, and the empty file
SmallFiles(lang) == {<<>>} \cup {<<it>> : it \in Items(lang)}

\* the text of a source file
Contents(lang, items) == Layout(RootType(lang), items).bytes

\* LanguageParser.__init__ without file contents: no file is held yet
NewParser(lang) ==
    [lang |-> lang, held |-> FALSE, file_bytes |-> <<>>, tree |-> NoneNode,
     starting_point |-> 0,
     node2namespace |-> EmptyMap, node2parent |-> EmptyMap,
     node2declaration |-> EmptyMap, node2name |-> EmptyMap,
     node2export |-> EmptyMap]

\* LanguageParser.update: file_bytes and tree of the new contents, as the
\* tree_sitter parser lays them out
with_layout(p, layout) ==
    [p EXCEPT !.held = TRUE, !.file_bytes = layout.bytes, !.tree = layout.tree]

base_update(p, items) == with_layout(p, Layout(RootType(p.lang), items))

NoMaps == [ns |-> EmptyMap, parent |-> EmptyMap]

with_maps(p, m) == [p EXCEPT !.node2namespace = m.ns, !.node2parent = m.parent]

\* RubyParser.update: the namespace map of the new tree (ruby_parser.py 48-50)
Ruby_update_namespaces(p) ==
    [p EXCEPT !.node2namespace =
                  Ruby_traverse_namespace(p, p.tree, <<>>, EmptyMap)]

Ruby_update(p, items) == Ruby_update_namespaces(base_update(p, items))

\* CSharpParser.update: the namespace maps of the new tree (csharp_parser.py 102-105)
CSharp_update_namespaces(p) ==
    with_maps(p, CSharp_traverse_namespace(p, p.tree, <<>>, NoMaps))

CSharp_update(p, items) == CSharp_update_namespaces(base_update(p, items))

\* CppParser.update: the namespace maps of the new tree (cpp_parser.py 84-87)
Cpp_update_namespaces(p) ==
    with_maps(p, Cpp_traverse_namespace(p, p.tree, <<>>, NoMaps))

Cpp_update(p, items) == Cpp_update_namespaces(base_update(p, items))

\* JSTSParser.update
JSTS_update(p, items) ==
    [base_update(p, items) EXCEPT !.node2declaration = EmptyMap,
                                  !.node2name = EmptyMap,
                                  !.node2export = EmptyMap]

\* parser.update(file_contents) of the parser's class
update(p, items) ==
    CASE p.lang = "ruby" -> Ruby_update(p, items)
      [] p.lang = "csharp" -> CSharp_update(p, items)
      [] p.lang = "cpp" -> Cpp_update(p, items)
      [] p.lang = "typescript" -> JSTS_update(p, items)
      [] OTHER -> base_update(p, items)

\* parser.schema of the parser's class: the outcome r and the parser p
\* after the read
schema(p) ==
    CASE p.lang = "ruby" -> [p |-> p, r |-> Ruby_schema(p)]
      [] p.lang = "csharp" -> [p |-> p, r |-> CSharp_schema(p)]
      [] p.lang = "cpp" -> [p |-> p, r |-> Cpp_schema(p)]
      [] p.lang = "typescript" -> JSTS_schema(p)
      [] OTHER -> [p |-> p, r |-> Python_schema(p)]

-----------------------------------------------------------------------------
(* Specification SpecSchema: a parser is constructed on a file, its schema *)
(* is read any number of times, and it is updated to other files           *)

NoRead == [exc |-> "unread", val |-> <<>>]

InitSchema ==
    /\ \E lang \in Langs : \E items \in Files(lang) :
           parser = update(NewParser(lang), items)
    /\ pc = "updated"
    /\ out = NoRead
    /\ prev = NoRead
    /\ files = <<>>
    /\ idx = 0
    /\ statistics = <<>>
    /\ results = <<>>
    /\ log = <<>>
    /\ norm = <<>>
    /\ literal_count = <<>>
    /\ method = <<>>
    /\ dispatch = <<>>

\* parser.update(file_contents)
Update ==
    /\ \E items \in SmallFiles(parser.lang) : parser' = update(parser, items)
    /\ pc' = "updated"
    /\ out' = NoRead
    /\ prev' = NoRead
    /\ UNCHANGED <<files, idx, statistics, results, log, norm, literal_count, method, dispatch>>

\* parser.schema
ReadSchema ==
    /\ \E s \in {schema(parser)} : parser' = s.p /\ out' = s.r
    /\ prev' = out
    /\ pc' = IF pc = "updated" THEN "read" ELSE "reread"
    /\ UNCHANGED <<files, idx, statistics, results, log, norm, literal_count, method, dispatch>>

NextSchema == Update \/ ReadSchema

SpecSchema == InitSchema /\ [][NextSchema]_vars

-----------------------------------------------------------------------------
(* The token normalizer (source_parser/tree_sitter/__init__.py) *)

keywords == {"int", "integer", "float", "string", "char", "character"}

\* lang2lits: the numeric, string, character and pattern literal types of
\* the languages that have an entry
lang2lits ==
    ("python" :> <<{"integer", "float"}, {"string"}, {}, {}>>)
    @@ ("cpp" :> <<{"number_literal"}, {"string_literal", "raw_string_literal"},
                   {"char_literal"}, {}>>)
    @@ ("csharp" :> <<{"integer_literal", "real_literal"},
                      {"string_literal", "verbatim_string_literal"},
                      {"character_literal"}, {}>>)
    @@ ("javascript" :> <<{"number"}, {"string", "template_string"}, {},
                          {"regex_pattern"}>>)
    @@ ("typescript" :> <<{"number"}, {"string", "template_string"}, {},
                          {"regex_pattern"}>>)
    @@ ("java" :> <<{"decimal_floating_point_literal", "decimal_integer_literal",
                     "hex_floating_point_literal", "hex_integer_literal",
                     "octal_integer_literal", "binary_integer_literal"},
                    {"string_literal"}, {"character_literal"}, {}>>)

lang2statements ==
    "csharp" :> {"namespace_declaration", "class_declaration",
                 "method_declaration", "struct_declaration",
                 "interface_declaration", "operator_declaration",
                 "record_declaration", "constructor_declaration",
                 "destructor_declaration", "enum_declaration",
                 "event_declaration", "event_field_declaration",
                 "field_declaration", "property_declaration", "using_directive"}

\* sub in str(type), for the node types of the model
TypeContains(type, sub) ==
    CASE sub = "string" ->
            type \in {"string", "template_string", "string_fragment",
                      "string_literal", "raw_string_literal",
                      "verbatim_string_literal", "concatenated_string",
                      "string_array", "chained_string"}
      [] sub = "char" ->
            type \in {"char_literal", "character_literal", "character"}
      [] sub = "statement" ->
            type \in {"expression_statement", "return_statement"}
      [] sub = "comment" -> type \in {"comment"}
      [] OTHER -> FALSE

\* the token lists get_tokens fills, and the exception that ended the call
NoTokens == [exc |-> "", tokens |-> <<>>, types |-> <<>>]

\* tokens.append(position); types.append(type)
AppendToken(tt, position, type) ==
    [tt EXCEPT !.tokens = Append(@, position), !.types = Append(@, type)]

StartPoint(node) == <<node.srow, node.scol>>
EndPoint(node) == <<node.erow, node.ecol>>

\* the end of get_tokens' loop body: the endofstatement marker after a child
\* that is a statement (tree_sitter/__init__.py 150-154)
end_of_statement(tt, child, preserve_statement, lang) ==
    IF tt.exc # "" \/ ~preserve_statement THEN tt
    ELSE IF ~TypeContains(child.type, "statement") /\ lang \notin DOMAIN lang2statements
    THEN [tt EXCEPT !.exc = "KeyError"]
    ELSE IF \/ TypeContains(child.type, "statement")
            \/ child.type \in lang2statements[lang]
    THEN IF tt.types[Len(tt.types)] # "endofstatement"
         THEN AppendToken(tt, <<-1, -1>>, "endofstatement")
         ELSE tt
    ELSE tt

\* the node types get_tokens excludes from the string test
composite_strings == {"concatenated_string", "string_array", "chained_string"}

\* a string test without the exclusion of the composite strings
is_one_token_with_composites(node) ==
    TypeContains(node.type, "string") \/ TypeContains(node.type, "char")

\* the test of get_tokens for a node that is appended as one token
\* (tree_sitter/__init__.py 140-144)
is_one_token(node) ==
    \/ /\ node.type \notin composite_strings
       /\ TypeContains(node.type, "string")
    \/ TypeContains(node.type, "char")

\* get_tokens(node, tokens, types, preserve_statement, lang): the lists
\* after the call; RecursionError on a subtree that is too deep
RECURSIVE get_tokens(_, _, _, _), get_tokens_children(_, _, _, _, _)
get_tokens(node, tt, preserve_statement, lang) ==
    IF tt.exc # "" THEN tt
    ELSE IF node.deep THEN [tt EXCEPT !.exc = "RecursionError"]
    ELSE IF node.kids = <<>>
    THEN AppendToken(tt, <<StartPoint(node), EndPoint(node)>>, node.type)
    ELSE IF is_one_token(node)
    THEN AppendToken(tt, <<StartPoint(node.kids[1]),
                           EndPoint(node.kids[Len(node.kids)])>>, node.type)
    ELSE get_tokens_children(node.kids, 1, tt, preserve_statement, lang)

get_tokens_children(kids, i, tt, preserve_statement, lang) ==
    IF i > Len(kids) \/ tt.exc # "" THEN tt
    ELSE get_tokens_children(
             kids, i + 1,
             end_of_statement(get_tokens(kids[i], tt, preserve_statement, lang),
                              kids[i], preserve_statement, lang),
             preserve_statement, lang)

\* is_numeric_operator_field(field)
is_numeric_operator_field(field) ==
    field \in {"=", "==", "===", "!=", "!==", "+", "-", "*", "/", "%", "!", "not"}

\* list[i] of a Python list for an index in range: a negative index counts
\* from the end
PyInRange(s, i) == -Len(s) <= i /\ i < Len(s)
PyAt(s, i) == IF i >= 0 THEN s[i + 1] ELSE s[Len(s) + i + 1]

\* the list without the element at 0-based index i (the shifting loop and
\* pop of handle_negative_case)
WithoutAt(s, i) == SubSeq(s, 1, i) \o SubSeq(s, i + 2, Len(s))

\* handle_negative_case(tokens, types, negative_index, numeric_literal_types)
handle_negative_case(tt, negative_index, numeric_literal_types) ==
    IF ~PyInRange(tt.types, negative_index + 1) THEN [tt EXCEPT !.exc = "IndexError"]
    ELSE IF PyAt(tt.types, negative_index + 1) \notin numeric_literal_types THEN tt
    ELSE IF \/ is_numeric_operator_field(PyAt(tt.types, negative_index - 1))
            \/ PyAt(tt.types, negative_index - 1) \in {",", "(", "{", "["}
    THEN [exc |-> "",
          tokens |-> WithoutAt(
                         [tt.tokens EXCEPT ![negative_index + 1] =
                              <<@[1], tt.tokens[negative_index + 2][2]>>],
                         negative_index + 1),
          types |-> WithoutAt(
                        [tt.types EXCEPT ![negative_index + 1] =
                             tt.types[negative_index + 2]],
                        negative_index + 1)]
    ELSE tt

\* handle_negative_number(tokens, types, numeric_lteral_types): the while
\* loop from index i
RECURSIVE handle_negative_from(_, _, _)
handle_negative_from(tt, i, numeric_lteral_types) ==
    IF tt.exc # "" \/ i >= Len(tt.types) THEN tt
    ELSE handle_negative_from(
             IF tt.types[i + 1] = "-"
             THEN handle_negative_case(tt, i, numeric_lteral_types)
             ELSE tt,
             i + 1, numeric_lteral_types)

handle_negative_number(tt, numeric_lteral_types) ==
    handle_negative_from(tt, 0, numeric_lteral_types)

\* bytes.split(b"\n")
RECURSIVE SplitNewlines(_)
SplitNewlines(s) ==
    IF IndexOf(s, "\n") = 0 THEN <<s>>
    ELSE <<SubSeq(s, 1, IndexOf(s, "\n") - 1)>>
         \o SplitNewlines(SubSeq(s, IndexOf(s, "\n") + 1, Len(s)))

\* the last 1-based position of x in s, 0 when absent
RECURSIVE LastIndexOf(_, _)
LastIndexOf(s, x) ==
    IF s = <<>> THEN 0
    ELSE IF s[Len(s)] = x THEN Len(s)
    ELSE LastIndexOf(SubSeq(s, 1, Len(s) - 1), x)

\* text.split("//")[0]
BeforeLineComment(text) ==
    IF IndexOf(text, "//") = 0 THEN text
    ELSE SubSeq(text, 1, IndexOf(text, "//") - 1)

\* re.sub(r"\/\*(.|\n)*\*\/", "", text): the text without the span from the
\* first comment opener to the last closer after it
WithoutBlockComments(text) ==
    IF IndexOf(text, "/*") = 0 \/ LastIndexOf(text, "*/") < IndexOf(text, "/*")
    THEN text
    ELSE SubSeq(text, 1, IndexOf(text, "/*") - 1)
         \o SubSeq(text, LastIndexOf(text, "*/") + 1, Len(text))

\* the text of one token in _file_tokenizer (tree_sitter/__init__.py
\* 214-234): sp and ep are the token's start and end points
TokenText(lines, sp, ep, type) ==
    IF type = "preproc_arg"
    THEN WithoutBlockComments(
             BeforeLineComment(Slice(lines[sp[1] + 1], sp[2], ep[2])))
    ELSE IF sp[1] = ep[1] THEN Slice(lines[sp[1] + 1], sp[2], ep[2])
    ELSE Slice(lines[sp[1] + 1], sp[2], Len(lines[sp[1] + 1]))
         \o Flatten(SubSeq(lines, sp[1] + 2, ep[1]))
         \o Slice(lines[ep[1] + 1], 0, ep[2])

\* the lists _file_tokenizer returns, and the line of the last token
NoFileTokens ==
    [exc |-> "", prev_line |-> 0, ret_pos |-> <<>>, ret_code |-> <<>>,
     ret_type |-> <<>>]

\* ret_pos.append(pos); ret_code.append(code); ret_type.append(type)
AppendFileToken(ft, pos, code, type) ==
    [ft EXCEPT !.ret_pos = Append(@, pos), !.ret_code = Append(@, code),
               !.ret_type = Append(@, type)]

\* the new_line token before a token that starts on another line
WithNewLine(ft, sp, keep_newline) ==
    IF sp[1] # ft.prev_line /\ keep_newline
    THEN AppendFileToken(ft, <<>>, <<"\n">>, "new_line")
    ELSE ft

\* one round of _file_tokenizer's loop
file_tokenizer_step(lines, token, type, keep_newline, ft) ==
    IF type = "endofstatement" /\ token[1] = -1
    THEN AppendFileToken(ft, <<>>, <<"<endofstatement>">>, "endofstatement")
    ELSE [AppendFileToken(WithNewLine(ft, token[1], keep_newline), token,
                          TokenText(lines, token[1], token[2], type), type)
          EXCEPT !.prev_line = token[2][1]]

RECURSIVE file_tokenizer_loop(_, _, _, _, _, _)
file_tokenizer_loop(lines, positions, types, keep_newline, ft, i) ==
    IF i > Len(positions) THEN ft
    ELSE file_tokenizer_loop(
             lines, positions, types, keep_newline,
             file_tokenizer_step(lines, positions[i], types[i], keep_newline, ft),
             i + 1)

\* the check for an empty final line (tree_sitter/__init__.py 258-262)
file_tokenizer_end(lines, keep_newline, ft) ==
    IF Strip(lines[Len(lines)]) = <<>> /\ keep_newline
    THEN IF ft.ret_code = <<>> THEN [ft EXCEPT !.exc = "IndexError"]
         ELSE IF ft.ret_code[Len(ft.ret_code)] # <<"\n">>
         THEN AppendFileToken(ft, <<>>, <<"\n">>, "new_line")
         ELSE ft
    ELSE ft

\* _file_tokenizer(code, positions, types, keep_newline)
file_tokenizer_lines(lines, positions, types, keep_newline) ==
    file_tokenizer_end(
        lines, keep_newline,
        file_tokenizer_loop(lines, positions, types, keep_newline,
                            NoFileTokens, 1))

_file_tokenizer(code, positions, types, keep_newline) ==
    file_tokenizer_lines(SplitNewlines(code), positions, types, keep_newline)

\* the atom that stands for the grave accent, the quote of a template string
Backtick == "U+0060"

\* atoms made of lower-case letters only
LowerAtoms == {"a", "b", "c", "f", "r", "s", "u", "x", "y", "ls", "using"}

\* re.search(r"^[a-z]+", token): the leading lower-case letters
RECURSIVE LowerPrefix(_)
LowerPrefix(token) ==
    IF token # <<>> /\ token[1] \in LowerAtoms
    THEN <<token[1]>> \o LowerPrefix(Tail(token))
    ELSE <<>>

\* re.search(r"^([a-z]+|@)", token)
StringQualifier(token) ==
    IF LowerPrefix(token) # <<>> THEN LowerPrefix(token)
    ELSE IF token # <<>> /\ token[1] = "@" THEN <<"@">>
    ELSE <<>>

\* the first of the quote options the text starts with, <<>> if none
RECURSIVE StartQuote(_, _)
StartQuote(token_string, options) ==
    IF options = <<>> \/ token_string = <<>> THEN <<>>
    ELSE IF token_string[1] = options[1] THEN <<options[1]>>
    ELSE StartQuote(token_string, Tail(options))

\* the quote the text ends with if it is the one it starts with
EndQuote(token_string, start_quote) ==
    IF start_quote # <<>> /\ token_string[Len(token_string)] = start_quote[1]
    THEN start_quote ELSE <<>>

\* the literal between the quotes: lit[len(q):] and then lit[:-len(q)]
Unquoted(token_string, start_quote) ==
    IF start_quote = <<>> THEN token_string
    ELSE IF EndQuote(token_string, start_quote) = <<>> THEN Tail(token_string)
    ELSE SubSeq(token_string, 2, Len(token_string) - 1)

\* special_chars_map of normalize: "U+" and the code point of the character
CodePoint(c) ==
    CASE c = " " -> "U+0020"
      [] c = "," -> "U+002C"
      [] OTHER -> "U+0063"

\* for sc, tc in special_chars_map.items(): lit = lit.replace(sc, tc)
RECURSIVE ReplaceSpecialChars(_, _)
ReplaceSpecialChars(lit, special_chars) ==
    IF special_chars = <<>> THEN lit
    ELSE ReplaceSpecialChars(
             ReplaceAtom(lit, special_chars[1], CodePoint(special_chars[1])),
             Tail(special_chars))

\* a placeholder that no override replaces
Placeholder_without_override(kind, lit, frequent, special_tokens_map, before, after) ==
    IF lit \in frequent
    THEN before \o <<"<", kind, "_LIT", ":">> \o lit \o <<">">> \o after
    ELSE before \o <<"<", kind, "_LIT", ">">> \o after

\* a placeholder that never carries the value of the literal
Placeholder_without_value(kind, lit, frequent, special_tokens_map, before, after) ==
    IF lit \in DOMAIN special_tokens_map THEN special_tokens_map[lit]
    ELSE before \o <<"<", kind, "_LIT", ">">> \o after

\* the placeholder of a literal: the override, the placeholder with the
\* value when it is a high-frequency literal, or the bare placeholder
Placeholder(kind, lit, frequent, special_tokens_map, before, after) ==
    IF lit \in DOMAIN special_tokens_map THEN special_tokens_map[lit]
    ELSE IF lit \in frequent
    THEN before \o <<"<", kind, "_LIT", ":">> \o lit \o <<">">> \o after
    ELSE before \o <<"<", kind, "_LIT", ">">> \o after

\* the character literal placeholder (tree_sitter/__init__.py 663-689)
CharPlaceholder(qualifier, token_string, start_quote, lits, special_tokens_map, special_chars) ==
    Placeholder("CHAR",
                ReplaceSpecialChars(Unquoted(token_string, start_quote),
                                    special_chars),
                lits.char, special_tokens_map,
                qualifier \o start_quote, EndQuote(token_string, start_quote))

\* the string literal placeholder (tree_sitter/__init__.py 690-727)
StrPlaceholder(qualifier, str_lit, lits, special_tokens_map, special_chars) ==
    Placeholder("STR", ReplaceSpecialChars(str_lit, special_chars),
                lits.str, special_tokens_map, qualifier, <<>>)

\* the string literal of a token that is not a C++ raw string
QuotedString(token, qualifier, lits, special_tokens_map, special_chars) ==
    StrPlaceholder(
        qualifier,
        Unquoted(SubSeq(token, Len(qualifier) + 1, Len(token)),
                 StartQuote(SubSeq(token, Len(qualifier) + 1, Len(token)),
                            <<"'''", "\"\"\"", "'", "\"", Backtick>>)),
        lits, special_tokens_map, special_chars)

IsKeyword(token) == Len(token) = 1 /\ token[1] \in keywords

\* add_token of norm_untokenize (tree_sitter/__init__.py 646-735)
add_token(token, tp, litnames, lits, comment, special_tokens_map, special_chars) ==
    IF TypeContains(tp, "comment")
    THEN IF comment = "normalize" THEN <<"#<COMMENT>">>
         ELSE IF comment = "keep" THEN token
         ELSE IF token # <<>> /\ token[1] = " " THEN <<" ">> ELSE <<>>
    ELSE IF tp \in litnames[4] /\ ~IsKeyword(token)
    THEN Placeholder("REGEX", token, lits.regex, special_tokens_map, <<>>, <<>>)
    ELSE IF tp \in litnames[3] /\ ~IsKeyword(token)
    THEN CharPlaceholder(
             LowerPrefix(token),
             SubSeq(token, Len(LowerPrefix(token)) + 1, Len(token)),
             StartQuote(SubSeq(token, Len(LowerPrefix(token)) + 1, Len(token)),
                        <<"'", "\"">>),
             lits, special_tokens_map, special_chars)
    ELSE IF tp \in litnames[2] /\ ~IsKeyword(token)
    THEN IF token # <<>> /\ token[1] = "R\"("
         THEN StrPlaceholder(<<"R">>, SubSeq(token, 2, Len(token) - 1), lits,
                             special_tokens_map, special_chars)
         ELSE QuotedString(token, StringQualifier(token), lits,
                           special_tokens_map, special_chars)
    ELSE IF tp \in litnames[1] /\ ~IsKeyword(token)
    THEN Placeholder("NUM", token, lits.num, special_tokens_map, <<>>, <<>>)
    ELSE token

\* len(range(start, stop, step)) for a step that is not 0
RangeLen(start, stop, step) ==
    IF step > 0
    THEN IF stop > start THEN (stop - start + step - 1) \div step ELSE 0
    ELSE IF start > stop THEN (start - stop - step - 1) \div (-step) ELSE 0

\* n copies of one atom
Repeat(atom, n) == [i \in 1..n |-> atom]

\* the local variables of norm_untokenize
NoCode ==
    [exc |-> "", code_string |-> <<>>, prev_sp |-> <<>>, prev_ep |-> <<0, 0>>,
     prev_indent |-> 0, indent_size |-> -1]

\* a token on a new line, tracked even when its column increase exceeds
\* twice the unit
place_indented_tracking(u, sp, added, indent_size) ==
    IF sp[2] - u.prev_indent > 0
    THEN IF sp[2] - u.prev_indent > 2 * indent_size
         THEN [u EXCEPT !.code_string = @ \o <<"\n">> \o added,
                        !.indent_size = indent_size,
                        !.prev_indent = sp[2]]
         ELSE IF indent_size = 0 THEN [u EXCEPT !.exc = "ValueError"]
         ELSE [u EXCEPT !.code_string =
                            @ \o <<"\n">>
                              \o Repeat("<INDENT>",
                                        RangeLen(u.prev_indent, sp[2], indent_size))
                              \o added,
                        !.indent_size = indent_size,
                        !.prev_indent = sp[2]]
    ELSE IF sp[2] - u.prev_indent < 0
    THEN IF indent_size = 0 THEN [u EXCEPT !.exc = "ValueError"]
         ELSE [u EXCEPT !.code_string =
                            @ \o <<"\n">>
                              \o Repeat("<DEDENT>",
                                        RangeLen(sp[2], u.prev_indent, indent_size))
                              \o added,
                        !.indent_size = indent_size,
                        !.prev_indent = sp[2]]
    ELSE [u EXCEPT !.code_string = @ \o <<"\n">> \o added,
                   !.indent_size = indent_size,
                   !.prev_indent = sp[2]]

\* a token on a new line with indentation tracking on (tree_sitter/
\* __init__.py 744-760): indent_size is the value after line 748
place_indented(u, sp, added, indent_size) ==
    IF sp[2] - u.prev_indent > 0
    THEN IF sp[2] - u.prev_indent > 2 * indent_size
         THEN [u EXCEPT !.code_string = @ \o <<"\n">> \o added,
                        !.indent_size = indent_size]
         ELSE IF indent_size = 0 THEN [u EXCEPT !.exc = "ValueError"]
         ELSE [u EXCEPT !.code_string =
                            @ \o <<"\n">>
                              \o Repeat("<INDENT>",
                                        RangeLen(u.prev_indent, sp[2], indent_size))
                              \o added,
                        !.indent_size = indent_size,
                        !.prev_indent = sp[2]]
    ELSE IF sp[2] - u.prev_indent < 0
    THEN IF indent_size = 0 THEN [u EXCEPT !.exc = "ValueError"]
         ELSE [u EXCEPT !.code_string =
                            @ \o <<"\n">>
                              \o Repeat("<DEDENT>",
                                        RangeLen(sp[2], u.prev_indent, indent_size))
                              \o added,
                        !.indent_size = indent_size,
                        !.prev_indent = sp[2]]
    ELSE [u EXCEPT !.code_string = @ \o <<"\n">> \o added,
                   !.indent_size = indent_size,
                   !.prev_indent = sp[2]]

\* where a token goes after the one before it (tree_sitter/__init__.py
\* 737-766)
place(u, sp, ep, added, indent) ==
    IF u.prev_sp = <<>> \/ (sp[1] = u.prev_ep[1] /\ sp[2] = u.prev_ep[2])
    THEN [u EXCEPT !.code_string = @ \o added, !.prev_sp = sp, !.prev_ep = ep]
    ELSE IF sp[1] = u.prev_ep[1]
    THEN IF u.code_string = <<>> THEN [u EXCEPT !.exc = "IndexError"]
         ELSE [u EXCEPT !.code_string =
                            (IF @[Len(@)] # " " THEN @ \o <<" ">> ELSE @) \o added,
                        !.prev_sp = sp, !.prev_ep = ep]
    ELSE IF indent /\ added # <<>>
    THEN [place_indented(
              u, sp, added,
              IF sp[2] # u.prev_indent /\ u.prev_indent = 0 /\ u.indent_size = -1
              THEN sp[2] - u.prev_indent ELSE u.indent_size)
          EXCEPT !.prev_sp = sp, !.prev_ep = ep]
    ELSE [u EXCEPT !.code_string = @ \o <<"\n">> \o Spaces(sp[2]) \o added,
                   !.prev_sp = sp, !.prev_ep = ep]

\* one round of norm_untokenize's loop
untokenize_step(u, pos, token, tp, litnames, opt) ==
    IF tp \in {"new_line", "\n"}
    THEN [u EXCEPT !.code_string = @ \o <<"\n">>]
    ELSE IF tp = "endofstatement"
    THEN [u EXCEPT !.code_string = @ \o <<"<endofstatement>">>]
    ELSE place(u, pos[1], pos[2],
               add_token(token, tp, litnames, opt.lits, opt.comment,
                         opt.special_tokens_map, opt.special_chars),
               opt.indent)

RECURSIVE untokenize_loop(_, _, _, _, _, _, _)
untokenize_loop(u, poses, tokens, types, litnames, opt, i) ==
    IF i > Len(poses) \/ u.exc # "" THEN u
    ELSE untokenize_loop(
             untokenize_step(u, poses[i], tokens[i], types[i], litnames, opt),
             poses, tokens, types, litnames, opt, i + 1)

\* re.sub(r"\s*\n", "\n", text): white space before a newline goes
RECURSIVE WithoutSpaceBeforeNewline(_)
WithoutSpaceBeforeNewline(text) ==
    IF text = <<>> THEN <<>>
    ELSE IF ~IsWs(text[1])
    THEN <<text[1]>> \o WithoutSpaceBeforeNewline(Tail(text))
    ELSE IF LastIndexOf(SubSeq(text, 1, Len(text) - Len(LStrip(text))), "\n") = 0
    THEN SubSeq(text, 1, Len(text) - Len(LStrip(text)))
         \o WithoutSpaceBeforeNewline(LStrip(text))
    ELSE SubSeq(text,
                LastIndexOf(SubSeq(text, 1, Len(text) - Len(LStrip(text))), "\n"),
                Len(text) - Len(LStrip(text)))
         \o WithoutSpaceBeforeNewline(LStrip(text))

\* the value norm_untokenize returns from its loop's outcome
untokenize_result(u) ==
    IF u.exc # "" THEN Raise(u.exc)
    ELSE Ok(WithoutSpaceBeforeNewline(LStrip(u.code_string)))

\* the local variables of norm_untokenize before its loop and after each
\* round of it
RECURSIVE untokenize_steps(_, _, _, _, _, _, _)
untokenize_steps(us, poses, tokens, types, litnames, opt, i) ==
    IF i > Len(poses) \/ us[Len(us)].exc # "" THEN us
    ELSE untokenize_steps(
             Append(us, untokenize_step(us[Len(us)], poses[i], tokens[i],
                                        types[i], litnames, opt)),
             poses, tokens, types, litnames, opt, i + 1)

\* norm_untokenize(poses, tokens, types, litnames, lits, comment, indent,
\* special_tokens_map, special_chars_map); opt holds the last five
norm_untokenize(poses, tokens, types, litnames, opt) ==
    untokenize_result(
        untokenize_loop(NoCode, poses, tokens, types, litnames, opt, 1))

\* bytes(code, "utf8") raises on a lone surrogate
Encodable(code) == "\\ud800" \notin Range(code)

\* normalize after _file_tokenizer
normalize_tokenized(lang, opt, ft) ==
    IF ft.exc # "" THEN Raise(ft.exc)
    ELSE norm_untokenize(ft.ret_pos, ft.ret_code, ft.ret_type, lang2lits[lang], opt)

\* normalize after handle_negative_number
normalize_merged(code, lang, opt, tt) ==
    IF tt.exc # "" THEN Raise(tt.exc)
    ELSE normalize_tokenized(lang, opt,
                             _file_tokenizer(code, tt.tokens, tt.types, TRUE))

\* normalize after get_tokens
normalize_collected(code, lang, opt, tt) ==
    IF tt.exc # "" THEN Raise(tt.exc)
    ELSE IF lang \notin DOMAIN lang2lits THEN Raise("KeyError")
    ELSE normalize_merged(code, lang, opt,
                          handle_negative_number(tt, lang2lits[lang][1]))

\* the try block of normalize (tree_sitter/__init__.py 529-548): tree is
\* what PARSER.parse returns for the code
normalize_try(code, tree, lang, opt) ==
    IF ~Encodable(code) THEN Raise("UnicodeEncodeError")
    ELSE normalize_collected(code, lang, opt,
                             get_tokens(tree, NoTokens, opt.preserve_statement, lang))

\* normalize without its except clause
normalize_uncaught(tried) == tried

\* except Exception: return ""
normalize_except(tried) == IF Raised(tried) THEN Ok(<<>>) ELSE tried

\* normalize(code, lang, lits, comment, indent, preserve_statement,
\* special_tokens_map, special_chars)
normalize(code, tree, lang, opt) ==
    normalize_except(normalize_try(code, tree, lang, opt))

-----------------------------------------------------------------------------
(* Code handed to the normalizer *)

NormLangs ==
    {"python", "cpp", "csharp", "javascript", "bash", "java", "typescript"}

\* a b = - 3 , 's' 't' on one line, and b on a line of its own
NormPythonItems ==
    { Tk("identifier", "a"), Tk("-", "-"), Tk("integer", "3"), Tk("=", "="),
      Tk0(",", ","), TkNl("identifier", "b", 2),
      Node("concatenated_string",
           <<Leaf("string", <<"'", "s", "'">>, FALSE, 1),
             Leaf("string", <<"'", "t", "'">>, FALSE, 1)>>) }

\* /*c*/  x  'c'  1 //c  R"(s)"
NormCppItems ==
    { Tk("comment", "/*c*/"),
      Tk("identifier", "x"),
      Node("char_literal", <<Tk("'", "'"), Tk0("character", "c"), Tk0("'", "'")>>),
      Leaf("preproc_arg", <<"1", " ", "//", "c">>, FALSE, 1),
      Leaf("raw_string_literal", <<"R\"(", "s", ")\"">>, FALSE, 1) }

\* using S;  f;  @"s"  3  and an expression nested too deep to walk
NormCSharpItems ==
    { Node("using_directive", <<TkNl("using", "using", 0), Tk("identifier", "S"),
                                Tk0(";", ";")>>),
      Node("expression_statement", <<TkNl("identifier", "f", 2), Tk0(";", ";")>>),
      Leaf("verbatim_string_literal", <<"@", "\"", "s", "\"">>, FALSE, 1),
      Tk("integer_literal", "3"),
      Deep(Tk("identifier", "d")) }

\* "s"  [a-z]  1  -  and an empty template string over two lines
NormJavaScriptItems ==
    { Node("string", <<Tk("\"", "\""), Tk0("string_fragment", "s"),
                       Tk0("\"", "\"")>>),
      Tk("regex_pattern", "[a-z]"),
      Tk("number", "1"),
      Tk("-", "-"),
      Node("template_string", <<Tk(Backtick, Backtick), TkNl(Backtick, Backtick, 0)>>) }

\* ls, and a word that holds a lone surrogate
NormBashItems == { Tk("word", "ls"), Tk("word", "\\ud800") }

\* identifiers at the columns 1 and 3 of the line they continue, and at the
\* columns 0, 1, 2 and 4 of a new line
NormJavaItems ==
    { Tk("identifier", "x"),
      Leaf("identifier", <<"u">>, FALSE, 3),
      TkNl("identifier", "v", 0),
      TkNl("identifier", "y", 1),
      TkNl("identifier", "w", 2),
      TkNl("identifier", "z", 4) }

\* a  string  'a'  's'  1, where string is the predefined type
NormTypeScriptItems ==
    { Tk("identifier", "a"),
      Node("predefined_type", <<Tk("string", "string")>>),
      Node("string", <<Tk("'", "'"), Tk0("string_fragment", "a"), Tk0("'", "'")>>),
      Node("string", <<Tk("'", "'"), Tk0("string_fragment", "s"), Tk0("'", "'")>>),
      Tk("number", "1") }

NormItems(lang) ==
    CASE lang = "python" -> NormPythonItems
      [] lang = "typescript" -> NormTypeScriptItems
      [] lang = "java" -> NormJavaItems
      [] lang = "cpp" -> NormCppItems
      [] lang = "csharp" -> NormCSharpItems
      [] lang = "javascript" -> NormJavaScriptItems
      [] OTHER -> NormBashItems

\* the code of up to MaxTokens top-level nodes
NormInputs(lang) == UNION {[1..n -> NormItems(lang)] : n \in 0..MaxTokens}

NoLits == [num |-> {}, str |-> {}, char |-> {}, regex |-> {}]

\* the keyword arguments of normalize: its defaults, comments kept with
\* statement markers and without indentation tracking, and comments
\* normalized with high-frequency literals and overrides
NormOptions ==
    { [lits |-> NoLits, comment |-> "remove", indent |-> TRUE,
       preserve_statement |-> FALSE, special_tokens_map |-> <<>>,
       special_chars |-> <<>>],
      [lits |-> NoLits, comment |-> "keep", indent |-> FALSE,
       preserve_statement |-> TRUE, special_tokens_map |-> <<>>,
       special_chars |-> <<>>],
      [lits |-> [num |-> {<<"3">>}, str |-> {<<"s">>}, char |-> {<<"c">>},
                 regex |-> {<<"[a-z]">>}],
       comment |-> "normalize", indent |-> TRUE, preserve_statement |-> FALSE,
       special_tokens_map |-> (<<"a">> :> <<"<VAR>">>),
       special_chars |-> <<",">>] }

-----------------------------------------------------------------------------
(* Specification SpecNorm: normalize, or handle_negative_number alone, is *)
(* called on a piece of code                                              *)

NormCall(lang, layout, opt) ==
    [pc |-> "called", lang |-> lang, code |-> layout.bytes, tree |-> layout.tree,
     opt |-> opt, tokens |-> NoTokens, tried |-> NoRead, ret |-> NoRead,
     ft |-> NoFileTokens, steps |-> <<>>]

InitNorm ==
    /\ \E lang \in NormLangs : \E items \in NormInputs(lang) :
           \E opt \in NormOptions :
               norm = NormCall(lang, Layout(RootType(lang), items), opt)
    /\ parser = NewParser("python")
    /\ pc = "norm"
    /\ out = NoRead
    /\ prev = NoRead
    /\ files = <<>>
    /\ idx = 0
    /\ statistics = <<>>
    /\ results = <<>>
    /\ log = <<>>
    /\ literal_count = <<>>
    /\ method = <<>>
    /\ dispatch = <<>>

\* normalize(code, lang, ...); tried records the outcome of its try block
Normalize ==
    /\ norm.pc = "called"
    /\ norm' = [norm EXCEPT
                    !.pc = "normalized",
                    !.tried = normalize_try(norm.code, norm.tree, norm.lang, norm.opt),
                    !.ret = normalize(norm.code, norm.tree, norm.lang, norm.opt)]
    /\ UNCHANGED <<parser, pc, out, prev, files, idx, statistics, results, log, literal_count, method, dispatch>>

\* handle_negative_number(tokens, types, lang2lits[lang][0]) on the lists
\* get_tokens collected
HandleNegativeNumber ==
    /\ norm.pc = "called"
    /\ norm.lang \in DOMAIN lang2lits
    /\ \E tt \in {get_tokens(norm.tree, NoTokens, FALSE, norm.lang)} :
           /\ tt.exc = ""
           /\ norm' = [norm EXCEPT
                           !.pc = "merged",
                           !.tokens = tt,
                           !.ret = handle_negative_number(
                                       tt, lang2lits[norm.lang][1])]
    /\ UNCHANGED <<parser, pc, out, prev, files, idx, statistics, results, log, literal_count, method, dispatch>>

\* get_tokens(root, tokens, types, preserve_statement, lang) on the tree
\* of the code, with the options of the call
GetTokens ==
    /\ norm.pc = "called"
    /\ norm' = [norm EXCEPT
                    !.pc = "collected",
                    !.tokens = get_tokens(norm.tree, NoTokens,
                                          norm.opt.preserve_statement, norm.lang)]
    /\ UNCHANGED <<parser, pc, out, prev, files, idx, statistics, results, log, literal_count, method, dispatch>>

\* norm_untokenize(poses, tokens, types, lang2lits[lang], ...) on the
\* lists _file_tokenizer returned for the code, as normalize calls it
\* (tree_sitter/__init__.py 529-546); steps records the rounds of its loop
NormUntokenize ==
    /\ norm.pc = "called"
    /\ norm.lang \in DOMAIN lang2lits
    /\ Encodable(norm.code)
    /\ \E tt \in {get_tokens(norm.tree, NoTokens, norm.opt.preserve_statement,
                              norm.lang)} :
           /\ tt.exc = ""
           /\ \E merged \in {handle_negative_number(tt, lang2lits[norm.lang][1])} :
                  /\ merged.exc = ""
                  /\ \E ft \in {_file_tokenizer(norm.code, merged.tokens,
                                                  merged.types, TRUE)} :
                         /\ ft.exc = ""
                         /\ norm' = [norm EXCEPT
                                         !.pc = "untokenized",
                                         !.tokens = merged,
                                         !.ft = ft,
                                         !.steps = untokenize_steps(
                                                       <<NoCode>>, ft.ret_pos,
                                                       ft.ret_code, ft.ret_type,
                                                       lang2lits[norm.lang],
                                                       norm.opt, 1),
                                         !.ret = norm_untokenize(
                                                     ft.ret_pos, ft.ret_code,
                                                     ft.ret_type,
                                                     lang2lits[norm.lang],
                                                     norm.opt)]
    /\ UNCHANGED <<parser, pc, out, prev, files, idx, statistics, results, log, literal_count, method, dispatch>>

NextNorm == Normalize \/ HandleNegativeNumber \/ GetTokens \/ NormUntokenize

SpecNorm == InitNorm /\ [][NextNorm]_vars

-----------------------------------------------------------------------------
(* Preprocessing hooks: parser.preprocess_file(file_contents)             *)
(* (parsers/python_parser.py, parsers/jsts_parser.py, langtools)          *)

\* a Python 2 print statement and what lib2to3 rewrites it to
PyPrint2 ==
    Node("print_statement", <<TkNl("print", "print", 0), Tk("string", "'x'")>>)

PyPrint3 ==
    Node("expression_statement",
         <<Node("call",
                <<TkNl("identifier", "print", 0),
                  Node("argument_list",
                       <<Tk0("(", "("), Tk0("string", "'x'"),
                         Tk0(")", ")")>>)>>)>>)

\* the outline is no Python 3 statement: a token is missing, a print
\* statement, or a definition without its colon
RECURSIVE NotPython3(_)
NotPython3(o) ==
    \/ o.missing
    \/ o.type \in {"ERROR", "print_statement"}
    \/ /\ o.type \in {"class_definition", "function_definition"}
       /\ \A i \in DOMAIN o.kids : o.kids[i].type # ":"
    \/ \E i \in DOMAIN o.kids : NotPython3(o.kids[i])

\* ast.parse(source_string): the exception it raises, "" when it returns.
\* overflow: the build's parser gives up on the nesting of a deep file
ast_parse(items, overflow) ==
    IF overflow /\ \E i \in DOMAIN items : HasDeep(items[i])
    THEN "RecursionError"
    ELSE IF \E i \in DOMAIN items : NotPython3(items[i]) THEN "SyntaxError"
    ELSE ""

\* lib2to3 cannot parse the outline
RECURSIVE NotPython2(_)
NotPython2(o) ==
    \/ o.missing
    \/ o.type = "ERROR"
    \/ /\ o.type \in {"class_definition", "function_definition"}
       /\ \A i \in DOMAIN o.kids : o.kids[i].type # ":"
    \/ \E i \in DOMAIN o.kids : NotPython2(o.kids[i])

\* fix2to3(source_string): print statements become calls; ParseError of
\* lib2to3 on a text that is no Python 2 either
fix2to3(items) ==
    IF \E i \in DOMAIN items : NotPython2(items[i]) THEN Raise("ParseError")
    ELSE Ok([i \in DOMAIN items |->
               IF items[i].type = "print_statement" THEN PyPrint3
               ELSE items[i]])

\* autopep8.fix_code(source_string): the texts of the model are indented
\* with spaces only and come back as they are
autopep8_fix_code(items) == Ok(items)

\* fixes[s_err.__class__]
python_fixes == {"IndentationError", "SyntaxError", "TabError"}

python_fixer(err, items) ==
    IF err = "SyntaxError" THEN fix2to3(items) ELSE autopep8_fix_code(items)

\* check_python3_attempt_fix(source_string): the while loop over fixes
RECURSIVE check_python3_loop(_, _, _)
check_python3_loop(items, fixes, overflow) ==
    IF fixes = {} THEN Ok(items)
    ELSE IF ast_parse(items, overflow) = "" THEN Ok(items)
    ELSE IF ast_parse(items, overflow) \notin fixes
         THEN Raise(ast_parse(items, overflow))
    ELSE IF Raised(python_fixer(ast_parse(items, overflow), items))
         THEN python_fixer(ast_parse(items, overflow), items)
    ELSE check_python3_loop(
             python_fixer(ast_parse(items, overflow), items).val,
             fixes \ {ast_parse(items, overflow)}, overflow)

check_python3_attempt_fix(items, overflow) ==
    check_python3_loop(items, python_fixes, overflow)

\* fix_indentation(source_string)
fix_indentation(fixed) ==
    IF Raised(fixed) THEN fixed ELSE autopep8_fix_code(fixed.val)

\* PythonParser.preprocess_file
Python_preprocess_file(items, overflow) ==
    fix_indentation(check_python3_attempt_fix(items, overflow))

\* a time_limit block of the Python hook is entered: attempt_fix or
\* fix_indentation
Python_time_limited(items, overflow) ==
    ast_parse(items, overflow) # "RecursionError"

\* is_minified: the cutoffs, in hundredths
indent_fraction == 5
operator_ws_fraction == 10

INCLUDE_TYPES ==
    {"+", "-", "*", "**", "/", "%", "=", "+=", "-=", "*=", "/=", "%=", "**=",
     "==", "===", "!=", "!==", ">", "<", ">=", "<=", "?", "&&", "||", "&",
     "|", "~", "^", "<<", ">>", ">>>", ",", ";"}

COMPOUND_LITS == {"concatenated_string, string_array", "chained_string"}

\* fraction_of_indented_lines(file_bytes) as the pair (indented, lines)
indented_lines(file_bytes) ==
    Len(SelectSeq(SplitLines(file_bytes),
                  LAMBDA l : l # <<>> /\ IsWs(Head(l))))

\* fraction_of_indented_lines(file_bytes) < indent_fraction
few_indented_lines(file_bytes) ==
    IF SplitLines(file_bytes) = <<>> THEN TRUE
    ELSE 100 * indented_lines(file_bytes)
             < indent_fraction * Len(SplitLines(file_bytes))

\* the nodes fraction_of_tokens_with_whitespace stops at: leaves, and
\* string or character nodes that are no compound literal
RECURSIVE whitespace_tokens(_)
whitespace_tokens(nodes) ==
    IF nodes = <<>> THEN <<>>
    ELSE IF \/ Head(nodes).kids = <<>>
            \/ /\ TypeContains(Head(nodes).type, "string")
               /\ Head(nodes).type \notin COMPOUND_LITS
            \/ TypeContains(Head(nodes).type, "char")
         THEN <<Head(nodes)>> \o whitespace_tokens(Tail(nodes))
    ELSE whitespace_tokens(Head(nodes).kids \o Tail(nodes))

included_tokens(tokens) ==
    SelectSeq(tokens, LAMBDA n : n.type \in INCLUDE_TYPES)

tokens_with_whitespace(file_bytes, included) ==
    SelectSeq(included,
              LAMBDA n : n.eb < Len(file_bytes) /\ IsWs(file_bytes[n.eb + 1]))

\* fraction_of_tokens_with_whitespace(parser) < operator_ws_fraction
few_tokens_with_whitespace(file_bytes, included) ==
    100 * Len(tokens_with_whitespace(file_bytes, included))
        < operator_ws_fraction * Max(Len(included), 1)

\* is_minified(parser) inside its time limit; a parser that holds no file
\* has neither file_bytes nor a tree to measure
is_minified(p) ==
    IF ~p.held THEN Raise("AttributeError")
    ELSE Ok(\/ few_indented_lines(p.file_bytes)
            \/ few_tokens_with_whitespace(
                   p.file_bytes,
                   included_tokens(whitespace_tokens(p.tree.kids))))

\* JSTSParser.preprocess_file(file_contents)
JSTS_preprocess_result(minified, items) ==
    IF Raised(minified) THEN Raise(minified.exc)
    ELSE IF minified.val THEN Ok(<<>>)
    ELSE Ok(items)

JSTS_preprocess_file(p, items) == JSTS_preprocess_result(is_minified(p), items)

\* LanguageParser.preprocess_file(file_contents): the contents as they are
base_preprocess_file(items) == Ok(items)

\* parser.preprocess_file(file_contents) of the parser's class
preprocess_file(p, items, overflow) ==
    CASE p.lang = "python" -> Python_preprocess_file(items, overflow)
      [] p.lang = "typescript" -> JSTS_preprocess_file(p, items)
      [] OTHER -> base_preprocess_file(items)

\* the hook runs under time_limit and may be cut short
time_limited(p, items, overflow) ==
    CASE p.lang = "python" -> Python_time_limited(items, overflow)
      [] p.lang = "typescript" -> p.held
      [] OTHER -> FALSE

\* what parser.preprocess_file(file_contents) can give: its result, or
\* TimeoutException when the alarm of time_limit goes off first
preprocess_outcomes(p, items) ==
    {preprocess_file(p, items, overflow) : overflow \in BOOLEAN}
    \cup {Raise("TimeoutException") :
              overflow \in {b \in BOOLEAN : time_limited(p, items, b)}}

-----------------------------------------------------------------------------
(* RepoContextObserver.notify (source_parser/cli/observers.py)            *)

statistic_labels ==
    {"schema_parse_failed", "git_clone_failed", "git_clone_timeout",
     "repos_with_no_relevant_files", "preprocess_timeout", "relevant_files",
     "relevant_files_with_structures", "number_of_methods",
     "number_of_classes", "number_of_lines", "number_of_chars",
     "preprocess_failed", "preprocess_filtered", "parser_timeout",
     "duplicate_items"}

\* crawler.notify: every label starts at 0
NoStatistics == [label \in statistic_labels |-> 0]

\* statistics[label] += n
Bump(st, label, n) == [st EXCEPT !.statistics[label] = @ + n]

\* text.count(x)
Count(text, x) == Len(SelectSeq(text, LAMBDA a : a = x))

\* any(schema.values())
AnyValue(sch) == \E k \in DOMAIN sch : sch[k] # <<>>

\* the files a repository of the language can hold
RepoFiles(lang) ==
    IF lang = "python" THEN SmallFiles(lang) \cup {<<PyPrint2>>}
    ELSE SmallFiles(lang)

\* repo_data["files"]: up to MaxFiles files
Repos(lang) == UNION {[1..n -> RepoFiles(lang)] : n \in 0..MaxFiles}

\* the handlers of the first try statement and the filter after it
notify_preprocess_except(st, pre, rel_path) ==
    CASE pre.exc = "TimeoutException" -> Bump(st, "preprocess_timeout", 1)
      [] pre.exc # "" ->
             [Bump(st, "preprocess_failed", 1) EXCEPT
                  !.error_msgs = Append(@, <<rel_path, pre.exc>>)]
      [] OTHER -> Bump(st, "preprocess_filtered", 1)

\* a handler that lets the exception of the schema read pass
notify_schema_uncaught(st, exc, rel_path) == [st EXCEPT !.raised = exc]

\* except Exception of the second try statement
notify_schema_except(st, exc, rel_path) ==
    [Bump(st, "schema_parse_failed", 1) EXCEPT
         !.error_msgs = Append(@, <<rel_path, exc>>)]

\* the file is saved: the counters of its structures and its result
notify_save(st, contents, sch, rel_path) ==
    [Bump(Bump(Bump(st, "relevant_files_with_structures", 1),
               "number_of_methods", Len(sch.methods)),
          "number_of_classes", Len(sch.classes)) EXCEPT
         !.results = Append(@, [relative_path |-> rel_path,
                                original_string |-> contents,
                                schema |-> sch])]

\* the second try statement: the schema read under time_limit
notify_schema(st, contents, sch, rel_path) ==
    IF sch.exc = "TimeoutException" THEN Bump(st, "parser_timeout", 1)
    ELSE IF Raised(sch) THEN notify_schema_except(st, sch.exc, rel_path)
    ELSE IF ~AnyValue(sch.val) THEN st
    ELSE notify_save(st, contents, sch.val, rel_path)

\* one pass of the loop over repo_data["files"], from the outcome of
\* preprocess_file and the outcome of the schema read
notify_file(st, pre, contents, sch, rel_path) ==
    IF Raised(pre) \/ pre.val = <<>>
    THEN notify_preprocess_except(st, pre, rel_path)
    ELSE notify_schema(
             Bump(Bump(st, "number_of_lines", Count(contents, "\n")),
                  "number_of_chars", Len(contents)),
             contents, sch, rel_path)

\* the parser after the first try statement: updated with the processed
\* contents unless preprocess_file raised
notify_update(p, pre) == IF Raised(pre) THEN p ELSE update(p, pre.val)

\* with time_limit(timeout): schema = parser.schema, its outcome or
\* TimeoutException; not reached when the loop continues before it.  A
\* read that is cut short leaves maps that the next update resets.
schema_outcomes(p, pre) ==
    IF Raised(pre) \/ pre.val = <<>> THEN {[p |-> p, r |-> NoRead]}
    ELSE {schema(p), [p |-> p, r |-> Raise("TimeoutException")]}

-----------------------------------------------------------------------------
(* Specification SpecNotify: notify is called on a task; the repository   *)
(* is cloned and its files are processed one after the other              *)

InitNotify ==
    /\ \E lang \in Langs :
           /\ parser = NewParser(lang)
           /\ files \in Repos(lang)
    /\ pc = "task"
    /\ out = <<>>
    /\ prev = NoRead
    /\ idx = 0
    /\ statistics = NoStatistics
    /\ results = <<>>
    /\ log = <<>>
    /\ norm = <<>>
    /\ literal_count = <<>>
    /\ method = <<>>
    /\ dispatch = <<>>

\* notify up to the loop: get_repo_data and the early returns
NotifyClone ==
    /\ pc = "task"
    /\ \E msg \in {0, 124, 128} :
           \E st \in {[statistics |-> statistics]} :
               IF msg = 124
               THEN /\ statistics' = Bump(st, "git_clone_timeout", 1).statistics
                    /\ pc' = "rejected"
               ELSE IF msg >= 128
               THEN /\ statistics' = Bump(st, "git_clone_failed", 1).statistics
                    /\ pc' = "rejected"
               ELSE IF files = <<>>
               THEN /\ statistics' =
                           Bump(st, "repos_with_no_relevant_files", 1).statistics
                    /\ pc' = "rejected"
               ELSE /\ statistics' =
                           Bump(st, "relevant_files", Len(files)).statistics
                    /\ pc' = "files"
    /\ UNCHANGED <<parser, out, prev, files, idx, results, log, norm, literal_count, method, dispatch>>

\* one pass of the loop: preprocess_file, update, schema, the counters
NotifyFile ==
    /\ pc = "files"
    /\ idx < Len(files)
    /\ \E pre \in preprocess_outcomes(parser, files[idx + 1]) :
       \E p \in {notify_update(parser, pre)} :
       \E s \in schema_outcomes(p, pre) :
       \E st \in {notify_file([statistics |-> statistics, results |-> results,
                               error_msgs |-> out, raised |-> ""],
                              pre, p.file_bytes, s.r, idx + 1)} :
           /\ parser' = s.p
           /\ statistics' = st.statistics
           /\ results' = st.results
           /\ out' = st.error_msgs
           /\ pc' = IF st.raised = "" THEN "files" ELSE "raised"
           /\ log' = Append(log, [pre |-> pre, sch |-> s.r,
                                  statistics |-> statistics,
                                  results |-> results])
    /\ idx' = idx + 1
    /\ UNCHANGED <<prev, files, norm, literal_count, method, dispatch>>

\* return results, error_msgs
NotifyReturn ==
    /\ pc = "files"
    /\ idx = Len(files)
    /\ pc' = "returned"
    /\ UNCHANGED <<parser, out, prev, files, idx, statistics, results, log, norm, literal_count, method, dispatch>>

NextNotify == NotifyClone \/ NotifyFile \/ NotifyReturn

SpecNotify == InitNotify /\ [][NextNotify]_vars

-----------------------------------------------------------------------------
(* LiteralCount (source_parser/tree_sitter/__init__.py): the literal      *)
(* frequency tables                                                        *)

lit_types == <<"num", "str", "char", "regex">>

\* collections.Counter: an insertion-ordered dict, kept as a sequence of
\* pairs <<key, count>>
Keys(c) == [j \in DOMAIN c |-> c[j][1]]

\* counter[k], 0 for a key that is absent
CounterGet(c, k) ==
    IF IndexOf(Keys(c), k) = 0 THEN 0 ELSE c[IndexOf(Keys(c), k)][2]

\* counter[k] += n
CounterAdd(c, k, n) == DictSet(c, k, CounterGet(c, k) + n)

\* dict.update(other): the values of other replace the values held
RECURSIVE DictUpdate(_, _)
DictUpdate(c, other) ==
    IF other = <<>> THEN c
    ELSE DictUpdate(DictSet(c, other[1][1], other[1][2]), Tail(other))

\* Counter.update(other): the counts of other are added to the counts held
RECURSIVE CounterUpdate(_, _)
CounterUpdate(c, other) ==
    IF other = <<>> THEN c
    ELSE CounterUpdate(CounterAdd(c, other[1][1], other[1][2]), Tail(other))

\* sorted(counter.items(), key=itemgetter(1), reverse=True): a stable sort,
\* entries of equal count stay in insertion order
RECURSIVE SortedByCount(_)
SortedByCount(c) ==
    IF c = <<>> THEN <<>>
    ELSE LET first == CHOOSE i \in DOMAIN c :
                          /\ \A j \in DOMAIN c : c[j][2] <= c[i][2]
                          /\ \A j \in 1..(i - 1) : c[j][2] < c[i][2]
         IN <<c[first]>> \o SortedByCount(WithoutAt(c, first - 1))

\* Counter.most_common(n): the first n entries of the sorted items, none
\* for n <= 0
most_common(c, n) == SubSeq(SortedByCount(c), 1, Max(0, Min(n, Len(c))))

\* the four empty counters of a new instance or of a count_lits call
NoLiterals == [num |-> <<>>, str |-> <<>>, char |-> <<>>, regex |-> <<>>]

\* LiteralCount.__init__(lang, token_limit)
NewLiteralCount(lang, token_limit) ==
    [lang |-> lang, token_limit |-> token_limit, lits_counter |-> NoLiterals]

\* LiteralCount.update(litses): every table of the list is added, kind by kind
RECURSIVE LiteralCount_update(_, _)
LiteralCount_update(lits_counter, litses) ==
    IF litses = <<>> THEN lits_counter
    ELSE LiteralCount_update(
             [t \in DOMAIN lits_counter |->
                  CounterUpdate(lits_counter[t], litses[1][t])],
             Tail(litses))

\* LiteralCount.prune(keep_num): each counter is cleared and refilled with
\* its keep_num most common entries
LiteralCount_prune(lits_counter, keep_num) ==
    [t \in DOMAIN lits_counter |-> most_common(lits_counter[t], keep_num)]

\* LiteralCount.get_top_lits: the keys of the most common entries
get_top_lits(lits_counter, num_keep, str_keep, char_keep, regex_keep) ==
    [num |-> Keys(most_common(lits_counter.num, num_keep)),
     str |-> Keys(most_common(lits_counter.str, str_keep)),
     char |-> Keys(most_common(lits_counter.char, char_keep)),
     regex |-> Keys(most_common(lits_counter.regex, regex_keep))]

\* re.sub(r"\s*\n", "\n", code).count("\n"): one for each run of white
\* space that holds a newline
NewlineCount(code) ==
    Cardinality({i \in DOMAIN code :
        /\ code[i] = "\n"
        /\ \A j \in (i + 1)..Len(code) :
               code[j] = "\n" => \E k \in (i + 1)..(j - 1) : ~IsWs(code[k])})

\* the atoms of the model that stand for more than one character
AtomWidth(a) == IF a = "[a-z]" THEN 5 ELSE 1

\* len(text)
RECURSIVE PyLen(_)
PyLen(text) == IF text = <<>> THEN 0 ELSE AtomWidth(Head(text)) + PyLen(Tail(text))

\* the patterns (?<=q)(.*)(?=q) for the four quotes, in the order tried
str_quote_options == <<"\"\"\"", "'''", "'", "\"">>

\* the ends j of a match of (?<=q)(.*)(?=q) that starts after position i:
\* q at i and at j, and no newline between them
QuoteEnds(token, q, i) ==
    {j \in (i + 1)..Len(token) :
        /\ token[j] = q
        /\ "\n" \notin Range(SubSeq(token, i + 1, j - 1))}

\* re.search of the pattern for quote q: the leftmost start that has an
\* end, and the longest text from it
QuoteStarts(token, q) ==
    {i \in DOMAIN token : token[i] = q /\ QuoteEnds(token, q, i) # {}}

QuoteGroup(token, q) ==
    LET i == CHOOSE s \in QuoteStarts(token, q) :
                 \A t \in QuoteStarts(token, q) : s <= t
        j == CHOOSE e \in QuoteEnds(token, q, i) :
                 \A f \in QuoteEnds(token, q, i) : f <= e
    IN SubSeq(token, i + 1, j - 1)

\* the first of the patterns that matches, as a sequence of at most one group
RECURSIVE FirstQuoteGroup(_, _)
FirstQuoteGroup(token, options) ==
    IF options = <<>> THEN <<>>
    ELSE IF QuoteStarts(token, options[1]) # {}
    THEN <<QuoteGroup(token, options[1])>>
    ELSE FirstQuoteGroup(token, Tail(options))

\* strlit.replace(" ", "U+0020").replace(",", "U+002C")
EscapedKey(lit) == ReplaceSpecialChars(lit, <<" ", ",">>)

\* the longest string literal that is counted
length_limit == 25

\* one round of the loop of count_lits over zip(tokens, types)
count_lits_token(lits, token, tp, litnames) ==
    IF tp \in litnames[1] THEN [lits EXCEPT !.num = CounterAdd(@, token, 1)]
    ELSE IF tp \in litnames[2]
    THEN LET m == FirstQuoteGroup(token, str_quote_options)
         IN IF m # <<>> /\ 0 < PyLen(m[1]) /\ PyLen(m[1]) <= length_limit
            THEN [lits EXCEPT !.str = CounterAdd(@, EscapedKey(m[1]), 1)]
            ELSE lits
    ELSE IF tp \in litnames[3]
    THEN LET m == FirstQuoteGroup(token, SubSeq(str_quote_options, 3, 4))
         IN IF m # <<>>
            THEN [lits EXCEPT !.char = CounterAdd(@, EscapedKey(m[1]), 1)]
            ELSE lits
    ELSE IF tp \in litnames[4]
    THEN IF 0 < PyLen(token) /\ PyLen(token) < 25 /\ " " \notin Range(token)
         THEN [lits EXCEPT !.regex = CounterAdd(@, token, 1)]
         ELSE lits
    ELSE lits

RECURSIVE count_lits_loop(_, _, _, _, _)
count_lits_loop(lits, tokens, types, litnames, i) ==
    IF i > Len(tokens) THEN lits
    ELSE count_lits_loop(count_lits_token(lits, tokens[i], types[i], litnames),
                         tokens, types, litnames, i + 1)

\* count_lits after _file_tokenizer; an exception returns the empty tables
count_lits_tokenized(lang, ft) ==
    IF ft.exc # "" \/ lang \notin DOMAIN lang2lits THEN NoLiterals
    ELSE count_lits_loop(NoLiterals, ft.ret_code, ft.ret_type, lang2lits[lang], 1)

\* count_lits after get_tokens
count_lits_collected(code, lang, token_limit, tt) ==
    IF tt.exc # "" \/ Len(tt.tokens) > token_limit THEN NoLiterals
    ELSE count_lits_tokenized(lang, _file_tokenizer(code, tt.tokens, tt.types, TRUE))

\* LiteralCount.count_lits(code): tree is what LiteralCount.PARSER.parse
\* returns for the code when a language was set on it, and parse raises
\* when none was
count_lits(lc, code, tree, language_set) ==
    IF NewlineCount(code) < 2 THEN NoLiterals
    ELSE IF ~Encodable(code) \/ ~language_set THEN NoLiterals
    ELSE count_lits_collected(code, lc.lang, lc.token_limit,
                              get_tokens(tree, NoTokens, FALSE, lc.lang))

-----------------------------------------------------------------------------
(* Code handed to count_lits *)

\* 's'  "t"  1  and a string of 26 characters, each on a line of its own
LitPythonItems ==
    [s |-> Leaf("string", <<"'", "s", "'">>, TRUE, 0),
     t |-> Leaf("string", <<"\"", "t", "\"">>, TRUE, 0),
     n |-> TkNl("integer", "1", 0),
     long |-> Leaf("string", <<"'">> \o Repeat("x", length_limit + 1) \o <<"'">>,
                   TRUE, 0)]

\* 'c'  "a, b"  and a character literal of 26 characters
LitJavaItems ==
    [s |-> Leaf("character_literal", <<"'", "c", "'">>, TRUE, 0),
     t |-> Leaf("string_literal", <<"\"", "a", ",", " ", "b", "\"">>, TRUE, 0),
     n |-> TkNl("decimal_integer_literal", "1", 0),
     long |-> Leaf("character_literal",
                   <<"'">> \o Repeat("x", length_limit + 1) \o <<"'">>, TRUE, 0)]

\* "s"  [a-z]  1  and a string of 26 characters
LitJavaScriptItems ==
    [s |-> Leaf("string", <<"\"", "s", "\"">>, TRUE, 0),
     t |-> TkNl("regex_pattern", "[a-z]", 0),
     n |-> TkNl("number", "1", 0),
     long |-> Leaf("string", <<"\"">> \o Repeat("x", length_limit + 1) \o <<"\"">>,
                   TRUE, 0)]

LitLangs == {"python", "java", "javascript"}

LitItems(lang) ==
    CASE lang = "python" -> LitPythonItems
      [] lang = "java" -> LitJavaItems
      [] OTHER -> LitJavaScriptItems

\* the files of a corpus: a literal twice, two literals, a literal next to
\* a long one, and a file of one line
LitCodes(lang) ==
    LET it == LitItems(lang)
    IN {<<it.s, it.s>>, <<it.t, it.t>>, <<it.s, it.t>>, <<it.n, it.s>>,
        <<it.long, it.s>>, <<it.s>>}

default_token_limit == 50000

\* token_limit of the instance: the default, and a limit the files exceed
TokenLimits == {default_token_limit, 1}

\* the corpora of up to MaxFiles files
Corpora(lang) == UNION {[1..n -> LitCodes(lang)] : n \in 1..MaxFiles}

-----------------------------------------------------------------------------
(* Specification SpecLits: the files of a corpus are counted one by one,  *)
(* and the tables are merged into one LiteralCount in any order and any   *)
(* grouping, with prune called in between                                 *)

InitLits ==
    /\ \E lang \in LitLangs : \E codes \in Corpora(lang) :
           \E token_limit \in TokenLimits : \E language_set \in BOOLEAN :
               literal_count =
                   [lc |-> NewLiteralCount(lang, token_limit),
                    language_set |-> language_set,
                    codes |-> codes,
                    litses |-> <<>>,
                    merged |-> <<>>,
                    keep_nums |-> {},
                    last |-> [op |-> "new", before |-> NoLiterals, keep_num |-> 0]]
    /\ parser = NewParser("python")
    /\ pc = "count"
    /\ out = NoRead
    /\ prev = NoRead
    /\ files = <<>>
    /\ idx = 0
    /\ statistics = <<>>
    /\ results = <<>>
    /\ log = <<>>
    /\ norm = <<>>
    /\ method = <<>>
    /\ dispatch = <<>>

\* lits = literal_count.count_lits(code) for the next file of the corpus
CountLits ==
    /\ pc = "count"
    /\ LET i == Len(literal_count.litses) + 1
           layout == Layout(RootType(literal_count.lc.lang), literal_count.codes[i])
       IN /\ literal_count' =
                 [literal_count EXCEPT
                      !.litses = Append(@, count_lits(literal_count.lc, layout.bytes,
                                                      layout.tree,
                                                      literal_count.language_set))]
          /\ pc' = IF i = Len(literal_count.codes) THEN "merge" ELSE "count"
    /\ UNCHANGED <<parser, out, prev, files, idx, statistics, results, log, norm, method, dispatch>>

\* the tables that are not merged yet
Unmerged == DOMAIN literal_count.litses \ Range(literal_count.merged)

\* literal_count.update(litses) for one or two of the tables not merged yet
UpdateLits ==
    /\ pc = "merge"
    /\ \E chunk \in {<<i>> : i \in Unmerged}
                    \cup {<<i, j>> : i, j \in Unmerged} :
           /\ Len(chunk) = 2 => chunk[1] # chunk[2]
           /\ literal_count' =
                  [literal_count EXCEPT
                       !.lc.lits_counter =
                           LiteralCount_update(
                               @, [k \in DOMAIN chunk |-> literal_count.litses[chunk[k]]]),
                       !.merged = @ \o chunk,
                       !.last = [op |-> "update",
                                 before |-> literal_count.lc.lits_counter,
                                 keep_num |-> 0]]
    /\ UNCHANGED <<parser, pc, out, prev, files, idx, statistics, results, log, norm, method, dispatch>>

\* literal_count.prune(keep_num)
PruneLits ==
    /\ pc = "merge"
    /\ \E keep_num \in 0..MaxKeep :
           literal_count' =
               [literal_count EXCEPT
                    !.lc.lits_counter = LiteralCount_prune(@, keep_num),
                    !.keep_nums = @ \cup {keep_num},
                    !.last = [op |-> "prune",
                              before |-> literal_count.lc.lits_counter,
                              keep_num |-> keep_num]]
    /\ UNCHANGED <<parser, pc, out, prev, files, idx, statistics, results, log, norm, method, dispatch>>

NextLits == CountLits \/ UpdateLits \/ PruneLits

SpecLits == InitLits /\ [][NextLits]_vars

-----------------------------------------------------------------------------
(* The records of a schema read *)

\* the records a class or method record holds
Nested(r) ==
    (IF "methods" \in DOMAIN r THEN r.methods ELSE <<>>)
    \o (IF "classes" \in DOMAIN r THEN r.classes ELSE <<>>)
    \o (IF "attributes" \in DOMAIN r /\ "classes" \in DOMAIN r.attributes
        THEN r.attributes.classes ELSE <<>>)

RECURSIVE RecordsIn(_)
RecordsIn(rs) ==
    IF rs = <<>> THEN {}
    ELSE {Head(rs)} \cup RecordsIn(Nested(Head(rs))) \cup RecordsIn(Tail(rs))

\* every class and method record of the schema that was read last
SchemaRecords ==
    IF out.exc = "" THEN RecordsIn(out.val.classes \o out.val.methods) ELSE {}

\* the bytes of the file at the record's byte span
SpanBytes(r) == Slice(parser.file_bytes, r.byte_span[1], r.byte_span[2])

ExactSpan(r) == r.original_string = SpanBytes(r)

-----------------------------------------------------------------------------
(* C1 *)

-----------------------------------------------------------------------------
(* C2 *)

\* namespace prefix + name
FullName(r) == r.attributes.namespace_prefix \o r.name

\* the class blocks of the file in discovery order, each span once
RECURSIVE FirstBySpan(_, _)
FirstBySpan(nodes, seen) ==
    IF nodes = <<>> THEN <<>>
    ELSE IF <<Head(nodes).sb, Head(nodes).eb>> \in seen
    THEN FirstBySpan(Tail(nodes), seen)
    ELSE <<Head(nodes)>>
         \o FirstBySpan(Tail(nodes),
                        seen \cup {<<Head(nodes).sb, Head(nodes).eb>>})

ClassBlocks == FirstBySpan(Ruby_class_nodes(parser), {})

BlockRecord(b) == Ruby_parse_class_node(parser, b).val

BlocksNamed(name) ==
    SelectSeq(ClassBlocks, LAMBDA b : FullName(BlockRecord(b)) = name)

RECURSIVE MethodsOfBlocks(_)
MethodsOfBlocks(bs) ==
    IF bs = <<>> THEN <<>>
    ELSE BlockRecord(Head(bs)).methods \o MethodsOfBlocks(Tail(bs))

RubyRead == parser.lang = "ruby" /\ out.exc = ""

\* C2: a Ruby schema holds exactly one class record per qualified name; it
\* is the record of the first discovered block of that name, its methods
\* are the methods of all blocks of that name in discovery order, and no
\* method byte span appears twice in it.
C2_ReopenedClassesMerged ==
    RubyRead =>
        LET cs == out.val.classes
        IN /\ \A i, j \in DOMAIN cs :
                  FullName(cs[i]) = FullName(cs[j]) => i = j
           /\ {FullName(cs[i]) : i \in DOMAIN cs}
                  = {FullName(BlockRecord(ClassBlocks[k])) : k \in DOMAIN ClassBlocks}
           /\ \A i \in DOMAIN cs :
                  LET bs == BlocksNamed(FullName(cs[i]))
                  IN /\ cs[i] = [BlockRecord(bs[1]) EXCEPT
                                     !.methods = MethodsOfBlocks(bs)]
                     /\ \A a, b \in DOMAIN cs[i].methods :
                            cs[i].methods[a].byte_span = cs[i].methods[b].byte_span
                                => a = b

\* a file with two blocks of one class was read: its record holds the
\* methods of both
C2_Witness ==
    /\ RubyRead
    /\ \E i \in DOMAIN out.val.classes :
           /\ Len(BlocksNamed(FullName(out.val.classes[i]))) >= 2
           /\ Len(out.val.classes[i].methods) >= 2

-----------------------------------------------------------------------------
(* C5 *)

\* every node of a subtree
RECURSIVE AllNodes(_)
AllNodes(node) ==
    {node} \cup UNION {AllNodes(node.kids[i]) : i \in DOMAIN node.kids}

\* the record's node fails the syntax-health check: it holds an ERROR or
\* MISSING node, or is too deep for the check to finish
Defective(r) ==
    \E n \in AllNodes(parser.tree) :
        /\ Span(n) = r.byte_span
        /\ n.kids # <<>>
        /\ (HasDeep(n) \/ HasErrorNode(n))

Read == pc \in {"read", "reread"}

\* C5 as stated: in every parser a recursion-depth failure of the
\* syntax-health check does not leave the extraction, and the record of a
\* node that fails the check has syntax_pass = False.
C5_SyntaxFailureContained ==
    Read =>
        /\ out.exc # "RecursionError"
        /\ \A r \in SchemaRecords :
               Defective(r) => "syntax_pass" \in DOMAIN r /\ r.syntax_pass = FALSE

-----------------------------------------------------------------------------
(* C6 *)

\* the exceptions an absent child raises: list.index of an absent type,
\* an index past the children, an attribute of None, an unassigned local
MissingChildErrors ==
    {"ValueError", "IndexError", "AttributeError", "UnboundLocalError"}

\* C6 as stated: a method or class subtree that lacks an expected child
\* still yields a record; the schema read does not raise for it.
C6_MissingChildTolerated == Read => out.exc \notin MissingChildErrors

-----------------------------------------------------------------------------
(* C9 *)

\* C9: a schema read that follows another schema read, with no update in
\* between, has the same outcome as the read before it.
C9_RereadIdentical == pc = "reread" => out = prev

\* a JavaScript file was read twice, and the first read left the
\* declarations it discovered in the parser's maps
C9_Witness ==
    /\ pc = "reread"
    /\ out.exc = ""
    /\ out.val.methods # <<>>
    /\ DOMAIN parser.node2declaration # {}

-----------------------------------------------------------------------------
(* C10 *)

SpanKeys == {"byte_span", "start_point", "end_point"}

\* the field and property records of the class records that were read
FieldRecords ==
    UNION {UNION {{r.attributes[k][i] : i \in DOMAIN r.attributes[k]} :
                  k \in DOMAIN r.attributes \cap {"fields", "properties"}} :
           r \in SchemaRecords}

IsMethodRecord(r) == "signature" \in DOMAIN r

\* C10 as stated: every class, method and field record carries byte_span,
\* start_point and end_point, and no key is omitted: two records of one
\* kind read from one file have the same keys.
C10_NoKeyOmitted ==
    /\ \A r \in SchemaRecords \cup FieldRecords : SpanKeys \subseteq DOMAIN r
    /\ \A r1, r2 \in SchemaRecords :
           IsMethodRecord(r1) = IsMethodRecord(r2) =>
               /\ DOMAIN r1 = DOMAIN r2
               /\ DOMAIN r1.attributes = DOMAIN r2.attributes

\* C10, amended: every class and method record carries byte_span,
\* start_point and end_point; a field or property record carries none of
\* them; and the attributes of a Python record and of a
\* JavaScript/TypeScript method record hold a key only when it has a value.
C10_SpanKeysOfClassesAndMethods ==
    /\ \A r \in SchemaRecords : SpanKeys \subseteq DOMAIN r
    /\ \A f \in FieldRecords : DOMAIN f \cap SpanKeys = {}
    /\ \A r \in SchemaRecords :
           \/ parser.lang = "python"
           \/ parser.lang = "typescript" /\ IsMethodRecord(r)
           => \A k \in DOMAIN r.attributes : r.attributes[k] # <<>>

\* a class with fields was read next to a method record
C10_Witness ==
    /\ FieldRecords # {}
    /\ \E r \in SchemaRecords : IsMethodRecord(r)

-----------------------------------------------------------------------------
(* C3 *)

\* C3: normalize returns for every input, and returns the empty string
\* when its try block (parsing, collecting tokens, merging negative
\* numbers, tokenizing, reassembling) raised.
C3_NormalizeNeverRaises ==
    norm.pc = "normalized" =>
        /\ norm.ret.exc = ""
        /\ Raised(norm.tried) => norm.ret.val = <<>>

\* normalize was called on code that made its try block raise, and
\* returned the empty string
C3_Witness ==
    /\ norm.pc = "normalized"
    /\ Raised(norm.tried)
    /\ norm.ret = Ok(<<>>)

-----------------------------------------------------------------------------
(* C4 *)

\* the merge C4 describes: a "-" is merged with the numeric literal after
\* it only when a token stands before it and that token is an operator, a
\* comma or an opening bracket
ClaimedNegativeCase(tt, negative_index, numeric_literal_types) ==
    IF negative_index >= 1 THEN handle_negative_case(tt, negative_index,
                                                     numeric_literal_types)
    ELSE tt

RECURSIVE ClaimedNegativeFrom(_, _, _)
ClaimedNegativeFrom(tt, i, numeric_literal_types) ==
    IF i >= Len(tt.types) THEN tt
    ELSE ClaimedNegativeFrom(
             IF tt.types[i + 1] = "-" /\ i + 1 < Len(tt.types)
             THEN ClaimedNegativeCase(tt, i, numeric_literal_types)
             ELSE tt,
             i + 1, numeric_literal_types)

\* C4 as stated: handle_negative_number merges a "-" with the numeric
\* literal after it only when the token immediately before the "-" is an
\* operator, a comma or an opening bracket, and leaves every other token
\* as it is.
C4_MergeOnlyAfterOperator ==
    (norm.pc = "merged" /\ norm.ret.exc = "") =>
        norm.ret = ClaimedNegativeFrom(norm.tokens, 0, lang2lits[norm.lang][1])

-----------------------------------------------------------------------------
(* C7: in notify, whether a file is filtered out is decided by the file's  *)
(* own contents alone                                                      *)

\* preprocess_file returned the empty string
Filtered(pre) == pre.exc = "" /\ pre.val = <<>>

\* the hook filters the file when the parser holds this very file
FilteredByContents(lang, items) ==
    \E overflow \in BOOLEAN :
        Filtered(preprocess_file(update(NewParser(lang), items), items,
                                 overflow))

\* C7: every file that notify has processed without a timeout of the hook
\* was filtered out exactly when its own contents call for it, whatever the
\* parser held from the files processed before it.
C7_FilteredByOwnContents ==
    \A i \in DOMAIN log :
        log[i].pre.exc # "TimeoutException" =>
            (Filtered(log[i].pre) <=> FilteredByContents(parser.lang, files[i]))

-----------------------------------------------------------------------------
(* C8: in notify, the failure of one file stays with that file             *)

FailureCounters ==
    {"preprocess_timeout", "preprocess_failed", "parser_timeout",
     "schema_parse_failed"}

\* preprocessing or the schema read of the file raised
FileFailed(entry) == Raised(entry.pre) \/ entry.sch.exc \notin {"", "unread"}

\* the counters and the results after file i
StatisticsAfter(i) == IF i = Len(log) THEN statistics ELSE log[i + 1].statistics
ResultsAfter(i) == IF i = Len(log) THEN results ELSE log[i + 1].results

\* C8: no exception leaves notify, notify returns only after the last file,
\* and a file whose preprocessing or schema read raised or timed out adds
\* one to exactly one of the four failure counters and adds no result.
C8_FailureStaysWithFile ==
    /\ pc # "raised"
    /\ pc = "returned" => idx = Len(files)
    /\ \A i \in DOMAIN log :
           FileFailed(log[i]) =>
               /\ ResultsAfter(i) = log[i].results
               /\ \E c \in FailureCounters :
                      /\ StatisticsAfter(i)[c] = log[i].statistics[c] + 1
                      /\ \A d \in FailureCounters \ {c} :
                             StatisticsAfter(i)[d] = log[i].statistics[d]

\* the first file of a repository failed, the second one was still
\* processed and saved
C8_Witness ==
    /\ pc = "returned"
    /\ Len(log) = 2
    /\ FileFailed(log[1])
    /\ Len(results) = 1
    /\ results[1].relative_path = 2

-----------------------------------------------------------------------------
(* C11 *)

ParameterListTypes == {"parameters", "method_parameters", "formal_parameters"}

\* the parameter list of the definition a method record was read from
ParameterLists(r) ==
    {l \in AllNodes(parser.tree) :
        /\ l.type \in ParameterListTypes
        /\ l.sb >= r.byte_span[1]
        /\ l.eb <= r.byte_span[2]}

ParameterList(r) ==
    CHOOSE l \in ParameterLists(r) : \A m \in ParameterLists(r) : l.sb <= m.sb

\* the position of the "=" among the children of a parameter, 0 if none
SeparatorAt(param) == IndexOf([j \in DOMAIN param.kids |-> param.kids[j].type], "=")

\* the parameters of the list that declare a default value, each as the
\* text left of its "=" and the text right of it, in declaration order
RECURSIVE DeclaredDefaults(_, _)
DeclaredDefaults(params, i) ==
    IF i > Len(params) THEN <<>>
    ELSE LET kids == params[i].kids
             at == SeparatorAt(params[i])
         IN IF at < 2 \/ at = Len(kids) THEN DeclaredDefaults(params, i + 1)
            ELSE <<<<Slice(parser.file_bytes, kids[1].sb, kids[at - 1].eb),
                     Slice(parser.file_bytes, kids[at + 1].sb, kids[Len(kids)].eb)>>>>
                 \o DeclaredDefaults(params, i + 1)

\* the mapping a method record holds; a record without the key holds none
DefaultArguments(r) ==
    IF "default_arguments" \in DOMAIN r THEN r.default_arguments ELSE <<>>

\* C11 as stated: for every method record, default_arguments holds exactly
\* the parameters that declare a default value, each mapped from the text
\* left of the "=" to the text right of it, in declaration order.
C11_ExactlyDeclaredDefaults ==
    \A r \in SchemaRecords :
        IsMethodRecord(r) /\ ParameterLists(r) # {} =>
            DefaultArguments(r) = DeclaredDefaults(ParameterList(r).kids, 1)

-----------------------------------------------------------------------------
(* C12 *)

Pruned == literal_count.last.op = "prune"

\* the table of one kind after prune holds the keep_num most frequent
\* entries of the table before it, with their counts
MostFrequentKept(before, after, keep_num) ==
    /\ Range(after) \subseteq Range(before)
    /\ Len(after) = Min(keep_num, Len(before))
    /\ \A kept \in Range(after) : \A dropped \in Range(before) \ Range(after) :
           dropped[2] <= kept[2]

\* C12 as stated: prune(keep_num) leaves in each kind's table only the
\* keep_num most frequent entries, with their counts unchanged, and
\* discards every entry that was seen only once.
C12_PruneDropsSingletons ==
    Pruned =>
        \A t \in DOMAIN literal_count.lc.lits_counter :
            /\ MostFrequentKept(literal_count.last.before[t],
                                literal_count.lc.lits_counter[t],
                                literal_count.last.keep_num)
            /\ \A e \in Range(literal_count.lc.lits_counter[t]) : e[2] > 1

-----------------------------------------------------------------------------
(* C13 *)

\* the counts of the four tables, without the order of insertion
Counts(lits_counter) == [t \in DOMAIN lits_counter |-> Range(lits_counter[t])]

\* the counted tables of a set of files, in the order of the corpus
TablesOf(ixs) ==
    LET order == SelectSeq([i \in DOMAIN literal_count.litses |-> i],
                           LAMBDA i : i \in ixs)
    IN [k \in DOMAIN order |-> literal_count.litses[order[k]]]

\* one update call with the tables of the files, in the order of the corpus
MergedAtOnce(ixs) == LiteralCount_update(NoLiterals, TablesOf(ixs))

\* no count of the tables before the last update is larger than it is now
NoCountDecreased ==
    literal_count.last.op = "update" =>
        \A t \in DOMAIN literal_count.last.before :
            \A e \in Range(literal_count.last.before[t]) :
                CounterGet(literal_count.lc.lits_counter[t], e[1]) >= e[2]

AllMerged == pc = "merge" /\ Unmerged = {}

\* C13 as stated: update only adds to counts, and merging the same tables
\* through update and prune(keep_num) in any order or grouping ends with
\* the same counts as merging them in one call and pruning once.
C13_AnyOrderSameCounts ==
    /\ NoCountDecreased
    /\ AllMerged /\ Pruned /\ Cardinality(literal_count.keep_nums) = 1 =>
           Counts(literal_count.lc.lits_counter)
               = Counts(LiteralCount_prune(
                            MergedAtOnce(DOMAIN literal_count.litses),
                            literal_count.last.keep_num))

\* C13, amended: update only adds to counts, and as long as prune was not
\* called the counts depend only on which tables were merged, not on the
\* order or grouping of the update calls.
C13_UpdateOrderIndependent ==
    /\ NoCountDecreased
    /\ pc = "merge" /\ literal_count.keep_nums = {} =>
           Counts(literal_count.lc.lits_counter)
               = Counts(MergedAtOnce(Range(literal_count.merged)))

\* two different tables were merged in the reverse order of the corpus,
\* and a literal counted in both has the sum of its counts
C13_Witness ==
    /\ pc = "merge"
    /\ literal_count.keep_nums = {}
    /\ literal_count.merged = <<2, 1>>
    /\ literal_count.litses[1] # literal_count.litses[2]
    /\ \E t \in DOMAIN literal_count.lc.lits_counter :
           \E e \in Range(literal_count.lc.lits_counter[t]) :
               /\ CounterGet(literal_count.litses[1][t], e[1]) > 0
               /\ CounterGet(literal_count.litses[2][t], e[1]) > 0
               /\ e[2] = CounterGet(literal_count.litses[1][t], e[1])
                             + CounterGet(literal_count.litses[2][t], e[1])

-----------------------------------------------------------------------------
(* C14 *)

\* the keys of the string and character tables count_lits returned for the
\* files counted so far: the canonical values of the literals it counted
CountedQuoted ==
    UNION {Range(Keys(literal_count.litses[i].str))
               \cup Range(Keys(literal_count.litses[i].char)) :
           i \in DOMAIN literal_count.litses}

\* C14 as stated: count_lits never counts a string literal or a character
\* literal whose canonical value is longer than the length limit.
C14_LongLiteralsNotCounted ==
    \A lit \in CountedQuoted : PyLen(lit) <= length_limit

-----------------------------------------------------------------------------
(* C15 *)

\* get_tokens has returned the token lists of the code
Collected == norm.pc = "merged"

\* the nodes of the tree above a node
Ancestors(n) ==
    {NodeAt(norm.tree, SubSeq(n.id, 1, k)) : k \in 0..(Len(n.id) - 1)}

\* the nodes strictly below a node
Descendants(n) == AllNodes(n) \ {n}

\* a token of the node's type from the start of its first child to the end
\* of its last child is among the collected tokens
SpansChildren(n) ==
    \E i \in DOMAIN norm.tokens.tokens :
        /\ norm.tokens.tokens[i]
               = <<StartPoint(n.kids[1]), EndPoint(n.kids[Len(n.kids)])>>
        /\ norm.tokens.types[i] = n.type

\* the leaf is among the collected tokens
LeafCollected(l) ==
    \E i \in DOMAIN norm.tokens.tokens :
        /\ norm.tokens.tokens[i] = <<StartPoint(l), EndPoint(l)>>
        /\ norm.tokens.types[i] = l.type

CompositeNodes ==
    {n \in AllNodes(norm.tree) : n.type \in composite_strings /\ n.kids # <<>>}

\* the nodes with children whose type names a string or a character
\* literal, the composite strings apart
QuotedNodes ==
    {n \in AllNodes(norm.tree) :
        /\ n.kids # <<>>
        /\ n.type \notin composite_strings
        /\ TypeContains(n.type, "string") \/ TypeContains(n.type, "char")}

\* C15 as stated: a node whose type is a composite-string marker is
\* emitted as one token from its first child's start to its last child's
\* end, and none of the nodes below it is emitted.
C15_CompositeIsOneToken ==
    Collected =>
        \A n \in CompositeNodes :
            /\ SpansChildren(n)
            /\ \A d \in Descendants(n) : d.kids = <<>> => ~LeafCollected(d)

\* C15, amended: a node with children whose type contains "string" or
\* "char" is emitted as one token from its first child's start to its last
\* child's end and is not descended into, unless its type is one of the
\* composite-string markers: a composite string is descended into, no
\* token of its own is emitted, and its component strings are the tokens.
C15_CompositeIsDescended ==
    Collected =>
        /\ \A n \in QuotedNodes :
               Ancestors(n) \cap QuotedNodes = {} =>
                   /\ SpansChildren(n)
                   /\ \A d \in Descendants(n) : d.kids = <<>> => ~LeafCollected(d)
        /\ \A n \in CompositeNodes :
               /\ n.type \notin Range(norm.tokens.types)
               /\ \A k \in DOMAIN n.kids :
                      n.kids[k].kids = <<>> => LeafCollected(n.kids[k])

\* the tokens of a composite string of two strings were collected: one
\* token for each of the two
C15_Witness ==
    /\ Collected
    /\ \E n \in CompositeNodes :
           /\ Len(n.kids) = 2
           /\ LeafCollected(n.kids[1])
           /\ LeafCollected(n.kids[2])

-----------------------------------------------------------------------------
(* C16 *)

\* get_tokens has returned, or raised, with preserve_statement enabled
CollectedStatements == norm.pc = "collected" /\ norm.opt.preserve_statement

\* the node types that denote a statement boundary in a language
IsStatement(type, lang) ==
    \/ TypeContains(type, "statement")
    \/ lang \in DOMAIN lang2statements /\ type \in lang2statements[lang]

\* the child nodes of the tree that are statements
StatementNodes ==
    {n \in AllNodes(norm.tree) : n.id # <<>> /\ IsStatement(n.type, norm.lang)}

\* the last token of a node is followed by an endofstatement marker
MarkerAfter(n) ==
    \E i \in DOMAIN norm.tokens.tokens :
        /\ norm.tokens.types[i] # "endofstatement"
        /\ norm.tokens.tokens[i][2] = EndPoint(n)
        /\ i < Len(norm.tokens.types)
        /\ norm.tokens.types[i + 1] = "endofstatement"

NoAdjacentMarkers ==
    \A i \in 1..(Len(norm.tokens.types) - 1) :
        ~(norm.tokens.types[i] = "endofstatement"
          /\ norm.tokens.types[i + 1] = "endofstatement")

\* C16 as stated: with preserve_statement enabled, get_tokens returns the
\* token lists of a tree it can walk, with an endofstatement marker right
\* after the tokens of every child node that is a statement, and without
\* two adjacent markers.
C16_MarkerAfterEveryStatement ==
    CollectedStatements /\ ~HasDeep(norm.tree) =>
        /\ norm.tokens.exc = ""
        /\ \A n \in StatementNodes : MarkerAfter(n)
        /\ NoAdjacentMarkers

-----------------------------------------------------------------------------
(* C17 *)

\* the rounds of norm_untokenize's loop that rendered a token: round i
\* read the i-th token and raised nothing
Rendered ==
    IF norm.pc # "untokenized" THEN {}
    ELSE {i \in 1..(Len(norm.steps) - 1) :
              /\ norm.steps[i + 1].exc = ""
              /\ norm.ft.ret_type[i] \notin {"new_line", "\n", "endofstatement"}}

Separators == {"\n", " ", "<INDENT>", "<DEDENT>"}

RECURSIVE DropSeparators(_)
DropSeparators(text) ==
    IF text # <<>> /\ text[1] \in Separators THEN DropSeparators(Tail(text))
    ELSE text

\* what round i appended to the code string
Appended(i) ==
    SubSeq(norm.steps[i + 1].code_string,
           Len(norm.steps[i].code_string) + 1,
           Len(norm.steps[i + 1].code_string))

\* the text a token was rendered as: what its round appended, after the
\* newline, the spaces and the indentation placeholders put before it
RenderedAs(i) == DropSeparators(Appended(i))

IsComment(i) == TypeContains(norm.ft.ret_type[i], "comment")

\* the kind of literal the type of a token denotes, "" if none
LiteralKind(i) ==
    IF IsComment(i) THEN ""
    ELSE IF norm.ft.ret_type[i] \in lang2lits[norm.lang][4] THEN "REGEX"
    ELSE IF norm.ft.ret_type[i] \in lang2lits[norm.lang][3] THEN "CHAR"
    ELSE IF norm.ft.ret_type[i] \in lang2lits[norm.lang][2] THEN "STR"
    ELSE IF norm.ft.ret_type[i] \in lang2lits[norm.lang][1] THEN "NUM"
    ELSE ""

\* the text of a token without its qualifier
Unqualified(token, kind) ==
    SubSeq(token,
           Len(IF kind = "STR" THEN StringQualifier(token) ELSE LowerPrefix(token)) + 1,
           Len(token))

\* the quotes a literal of a kind may stand between
QuoteOptions(kind) ==
    IF kind = "STR" THEN <<"'''", "\"\"\"", "'", "\"", Backtick>>
    ELSE <<"'", "\"">>

\* the value of a literal: the text of a number or a pattern; what stands
\* between the quotes of a string or a character, its special characters
\* converted
LiteralValue(i) ==
    LET token == norm.ft.ret_code[i]
        kind == LiteralKind(i)
    IN  IF kind \in {"NUM", "REGEX"} THEN token
        ELSE IF kind = "STR" /\ token # <<>> /\ token[1] = "R\"("
        THEN ReplaceSpecialChars(SubSeq(token, 2, Len(token) - 1),
                                 norm.opt.special_chars)
        ELSE ReplaceSpecialChars(
                 Unquoted(Unqualified(token, kind),
                          StartQuote(Unqualified(token, kind), QuoteOptions(kind))),
                 norm.opt.special_chars)

\* the high-frequency list of a kind
Frequent(kind) ==
    CASE kind = "NUM" -> norm.opt.lits.num
      [] kind = "STR" -> norm.opt.lits.str
      [] kind = "CHAR" -> norm.opt.lits.char
      [] OTHER -> norm.opt.lits.regex

\* text holds part at some place
Holds(text, part) ==
    \E k \in 0..(Len(text) - Len(part)) : SubSeq(text, k + 1, k + Len(part)) = part

BarePlaceholder(kind) == <<"<", kind, "_LIT", ">">>

ValuePlaceholder(kind, value) == <<"<", kind, "_LIT", ":">> \o value \o <<">">>

\* a literal is rendered as the placeholder of its kind, which carries the
\* value exactly when the value is a high-frequency literal
PlaceholderOfKind(i) ==
    IF LiteralValue(i) \in Frequent(LiteralKind(i))
    THEN /\ Holds(RenderedAs(i), ValuePlaceholder(LiteralKind(i), LiteralValue(i)))
         /\ ~Holds(RenderedAs(i), BarePlaceholder(LiteralKind(i)))
    ELSE /\ Holds(RenderedAs(i), BarePlaceholder(LiteralKind(i)))
         /\ ~Holds(RenderedAs(i), <<"<", LiteralKind(i), "_LIT", ":">>)

\* the tokens of a literal type that no override applies to
PlainLiterals ==
    {i \in Rendered : /\ LiteralKind(i) # ""
                      /\ LiteralValue(i) \notin DOMAIN norm.opt.special_tokens_map}

\* C17 as stated: every token of a literal type that no override applies
\* to is rendered as the placeholder of its kind, carrying the value if
\* and only if the value is in the high-frequency list of the kind.
C17_LiteralTypeIsPlaceholder ==
    \A i \in PlainLiterals : PlaceholderOfKind(i)

\* C17: every token of a literal type whose text is none of the keywords
\* (int, integer, float, string, char, character), and that no override
\* applies to, is rendered as the placeholder of its kind, carrying the
\* value if and only if the value is in the high-frequency list of the
\* kind; a token of a literal type whose text is a keyword is rendered
\* verbatim.
C17_LiteralIsPlaceholderUnlessKeyword ==
    \A i \in Rendered :
        LiteralKind(i) # "" =>
            IF IsKeyword(norm.ft.ret_code[i])
            THEN RenderedAs(i) = norm.ft.ret_code[i]
            ELSE i \in PlainLiterals => PlaceholderOfKind(i)

\* a string in the high-frequency list, a number outside it and a keyword
\* of a literal type were rendered in one call
C17_Witness ==
    /\ \E i \in PlainLiterals :
           /\ LiteralKind(i) = "STR"
           /\ LiteralValue(i) \in Frequent("STR")
           /\ ~IsKeyword(norm.ft.ret_code[i])
    /\ \E i \in PlainLiterals :
           /\ LiteralKind(i) = "NUM"
           /\ LiteralValue(i) \notin Frequent("NUM")
    /\ \E i \in Rendered : LiteralKind(i) # "" /\ IsKeyword(norm.ft.ret_code[i])

-----------------------------------------------------------------------------
(* C18 *)

\* the text of a token is a key of special_tokens_map
TextIsKey(i) == norm.ft.ret_code[i] \in DOMAIN norm.opt.special_tokens_map

\* the tokens that are neither comments nor of a literal type
NonLiterals == {i \in Rendered : ~IsComment(i) /\ LiteralKind(i) = ""}

\* the literals whose value has an override: they are of a literal type,
\* their text is no keyword, and their value is a key of special_tokens_map
OverriddenLiterals ==
    {i \in Rendered : /\ LiteralKind(i) # ""
                      /\ ~IsKeyword(norm.ft.ret_code[i])
                      /\ LiteralValue(i) \in DOMAIN norm.opt.special_tokens_map}

\* C18 as stated: every token whose text is a key of special_tokens_map
\* is rendered as the mapped value, literal or not, and every other token
\* that is neither a comment nor a literal is rendered verbatim.
C18_EveryKeyIsOverridden ==
    \A i \in Rendered :
        /\ TextIsKey(i) =>
               RenderedAs(i) = norm.opt.special_tokens_map[norm.ft.ret_code[i]]
        /\ ~TextIsKey(i) /\ i \in NonLiterals =>
               RenderedAs(i) = norm.ft.ret_code[i]

\* C18: special_tokens_map overrides literals only. A literal whose value
\* is a key of the map is rendered as the mapped value; every token that
\* is neither a comment nor a literal is rendered verbatim, a key of the
\* map or not.
C18_OnlyLiteralsAreOverridden ==
    /\ \A i \in OverriddenLiterals :
           RenderedAs(i) = norm.opt.special_tokens_map[LiteralValue(i)]
    /\ \A i \in NonLiterals : RenderedAs(i) = norm.ft.ret_code[i]

\* a call rendered a literal whose value is a key, and a token that is no
\* literal and whose text is the same key
C18_Witness ==
    \E i \in OverriddenLiterals : \E j \in NonLiterals :
        /\ TextIsKey(j)
        /\ norm.ft.ret_code[j] = LiteralValue(i)
        /\ norm.ft.ret_code[i] # LiteralValue(i)

-----------------------------------------------------------------------------
(* C19 *)

\* the rounds that put a token on a new line with indentation tracking
\* enabled: the token does not start on the line the one before it ended
\* on, and it is not rendered as the empty text
NewLineTransitions ==
    {i \in Rendered : /\ norm.opt.indent
                      /\ norm.steps[i].prev_sp # <<>>
                      /\ norm.ft.ret_pos[i][1][1] # norm.steps[i].prev_ep[1]
                      /\ RenderedAs(i) # <<>>}

\* the column increase of a transition over the last tracked column
ColumnIncrease(i) == norm.ft.ret_pos[i][1][2] - norm.steps[i].prev_indent

\* the inferred indentation unit a transition is measured with
IndentUnit(i) == norm.steps[i + 1].indent_size

\* the transitions whose column increase exceeds twice the unit
Unreliable ==
    {i \in NewLineTransitions : ColumnIncrease(i) > 2 * IndentUnit(i)}

\* the number of times an atom stands in a text
RECURSIVE CountAtom(_, _)
CountAtom(text, atom) ==
    IF text = <<>> THEN 0
    ELSE (IF text[1] = atom THEN 1 ELSE 0) + CountAtom(Tail(text), atom)

\* the spaces between the newline a round appended and what follows
SpacesAfterNewline(i) ==
    Len(Tail(Appended(i))) - Len(LStrip(Tail(Appended(i))))

\* the units of a column change, a started unit counting as one
UnitsOf(change, unit) == (change + unit - 1) \div unit

\* a tracked transition emits one placeholder per unit of change from the
\* last tracked column, which becomes the column of the token
TrackedPerUnit(i) ==
    /\ IndentUnit(i) > 0
    /\ Appended(i)[1] = "\n"
    /\ CountAtom(Appended(i), "<INDENT>") =
           (IF ColumnIncrease(i) > 0
            THEN UnitsOf(ColumnIncrease(i), IndentUnit(i)) ELSE 0)
    /\ CountAtom(Appended(i), "<DEDENT>") =
           (IF ColumnIncrease(i) < 0
            THEN UnitsOf(-ColumnIncrease(i), IndentUnit(i)) ELSE 0)
    /\ norm.steps[i + 1].prev_indent = norm.ft.ret_pos[i][1][2]

NoPlaceholder(i) ==
    /\ CountAtom(Appended(i), "<INDENT>") = 0
    /\ CountAtom(Appended(i), "<DEDENT>") = 0

\* C19 as stated: a transition whose column increase exceeds twice the
\* unit emits no <INDENT>, renders the line with its literal leading
\* spaces and leaves the tracked column alone; every other transition
\* emits one <INDENT> or <DEDENT> per unit of change.
C19_UnreliableKeepsLeadingSpaces ==
    \A i \in NewLineTransitions :
        IF i \in Unreliable
        THEN /\ NoPlaceholder(i)
             /\ Appended(i)[1] = "\n"
             /\ SpacesAfterNewline(i) = norm.ft.ret_pos[i][1][2]
             /\ norm.steps[i + 1].prev_indent = norm.steps[i].prev_indent
        ELSE TrackedPerUnit(i)

\* C19: a transition whose column increase exceeds twice the unit emits
\* no placeholder and no leading space, the token follows the newline at
\* once, and the tracked column stays what it was, so that the next
\* transitions are measured from the last tracked line; every other
\* transition emits one <INDENT> or <DEDENT> per started unit of change
\* from the last tracked column.
C19_UnreliableIsOmitted ==
    \A i \in NewLineTransitions :
        IF i \in Unreliable
        THEN /\ NoPlaceholder(i)
             /\ Appended(i) = <<"\n">> \o RenderedAs(i)
             /\ SpacesAfterNewline(i) = 0
             /\ norm.steps[i + 1].prev_indent = norm.steps[i].prev_indent
        ELSE TrackedPerUnit(i)

\* an unreliable transition to a column past 0, and a later transition
\* that emitted a placeholder measured from the column tracked before it
C19_Witness ==
    \E i \in Unreliable : \E j \in NewLineTransitions :
        /\ i < j
        /\ norm.ft.ret_pos[i][1][2] > 0
        /\ ~NoPlaceholder(j)
        /\ norm.steps[j].prev_indent = norm.steps[i].prev_indent
        /\ norm.steps[j].prev_indent # norm.ft.ret_pos[i][1][2]

-----------------------------------------------------------------------------
(* C20 *)

\* the rounds of the loop that read a token with a token before it: the
\* pairs of consecutive tokens
ConsecutivePairs ==
    IF norm.pc # "untokenized" THEN {}
    ELSE {i \in 1..(Len(norm.steps) - 1) :
              /\ norm.ft.ret_type[i] \notin {"new_line", "\n", "endofstatement"}
              /\ norm.steps[i].prev_sp # <<>>}

\* what the token of a round is rendered as
Rendering(i) ==
    add_token(norm.ft.ret_code[i], norm.ft.ret_type[i], lang2lits[norm.lang],
              norm.opt.lits, norm.opt.comment, norm.opt.special_tokens_map,
              norm.opt.special_chars)

\* the token starts where the one before it ended
NoGap(i) == norm.ft.ret_pos[i][1] = norm.steps[i].prev_ep

\* the token starts on the line the one before it ended on
SameLine(i) == norm.ft.ret_pos[i][1][1] = norm.steps[i].prev_ep[1]

\* one space stands between the code string and the token: the one the
\* code string ends with, or else one that is added
OneSpaceBefore(i) ==
    LET code_string == norm.steps[i].code_string
    IN  IF code_string # <<>> /\ code_string[Len(code_string)] = " "
        THEN Appended(i) = Rendering(i)
        ELSE Appended(i) = <<" ">> \o Rendering(i)

\* C20 as stated: of two consecutive tokens, the second is concatenated
\* to the code string if it starts where the first ended, is separated
\* from it by exactly one space if it starts later on the same line, and
\* is preceded by a newline if it starts on another line.
C20_GapDecidesSeparator ==
    \A i \in ConsecutivePairs :
        /\ norm.steps[i + 1].exc = ""
        /\ IF NoGap(i) THEN Appended(i) = Rendering(i)
           ELSE IF SameLine(i) THEN OneSpaceBefore(i)
           ELSE /\ Appended(i)[1] = "\n"
                /\ EndsWith(Appended(i), Rendering(i))

-----------------------------------------------------------------------------
(* C21 *)

\* the parsers that take the comment before a definition as its docstring
CommentDocstringLangs == {"cpp", "csharp", "typescript"}

\* the comment nodes the file docstring is made of
FileDocstringNodes ==
    IF parser.tree.kids = <<>> \/ parser.tree.kids[1].type # "comment" THEN <<>>
    ELSE IF parser.lang # "typescript" THEN LeadingComments(parser.tree.kids)
    ELSE IF Text(parser, parser.tree.kids[1])[1] \in {"/*", "/**"}
    THEN <<parser.tree.kids[1]>>
    ELSE JSTS_docstring_nodes(parser.tree.kids, parser.tree.kids[1], 1)

\* the docstring of a method or class record
DocstringOf(r) ==
    IF "docstring" \in DOMAIN r THEN r.docstring
    ELSE IF "class_docstring" \in DOMAIN r THEN r.class_docstring
    ELSE <<>>

\* the top-level definitions that stand right after a comment of the file
\* docstring and whose record has a docstring: the comment is reported
\* both as the file docstring and as the docstring of the record
DoublyAttributed ==
    IF out.exc # "" \/ parser.lang \notin CommentDocstringLangs THEN {}
    ELSE {k \in 2..Len(parser.tree.kids) :
              /\ parser.tree.kids[k - 1].id
                     \in {FileDocstringNodes[j].id : j \in DOMAIN FileDocstringNodes}
              /\ \E r \in Range(out.val.classes \o out.val.methods) :
                     /\ r.byte_span = Span(parser.tree.kids[k])
                     /\ DocstringOf(r) # <<>>}

\* C21 as stated: no comment is reported both as the file docstring and
\* as the docstring of a class or method.
C21_NoDoubleAttribution ==
    pc \in {"read", "reread"} => DoublyAttributed = {}

-----------------------------------------------------------------------------
(* C22 *)

NamespaceLangs == {"cpp", "csharp"}

NamespaceTypes == Cpp_namespace_types \cup CSharp_namespace_types

NamespaceSeparator == IF parser.lang = "cpp" THEN <<"::">> ELSE <<".">>

\* the records of the schema that carry a namespace prefix
PrefixedRecords ==
    IF pc \notin {"read", "reread"} \/ parser.lang \notin NamespaceLangs THEN {}
    ELSE {r \in SchemaRecords : "namespace_prefix" \in DOMAIN r.attributes}

\* the nodes of the file a record may have been made from
NodesOf(r) ==
    {n \in AllNodes(parser.tree) :
         /\ Span(n) = r.byte_span
         /\ n.type \in Cpp_method_types \cup Cpp_class_types
                       \cup CSharp_method_types \cup CSharp_class_types}

\* the nodes around a node, the outermost first, the root left out
Enclosing(n) ==
    [k \in 1..(Len(n.id) - 1) |-> NodeAt(parser.tree, SubSeq(n.id, 1, k))]

\* the name of a namespace and the separator after it
NamespaceName(n) ==
    (IF child_by_field_name(n, "name") # NoneNode
     THEN Text(parser, child_by_field_name(n, "name"))
     ELSE <<"(unique)">>) \o NamespaceSeparator

\* the names of the namespaces around a node, the outermost first, each
\* followed by the separator
NamespacePath(n) ==
    Flatten([k \in DOMAIN Enclosing(n) |->
                 IF Enclosing(n)[k].type \in NamespaceTypes
                 THEN NamespaceName(Enclosing(n)[k]) ELSE <<>>])

\* the node is a member of a namespace, or of the file, itself: nothing
\* but namespaces and their declaration lists are around it
NamespaceMember(n) ==
    \A k \in DOMAIN Enclosing(n) :
        Enclosing(n)[k].type \in NamespaceTypes \cup {"declaration_list"}

-----------------------------------------------------------------------------
(* C23 *)

\* the names of the classes and modules a class block is written in, the
\* outermost first
EnclosingNames(b) ==
    Flatten([k \in DOMAIN Enclosing(b) |->
                 IF /\ Enclosing(b)[k].type \in {"class", "module"}
                    /\ child_by_field_name(Enclosing(b)[k], "name") # NoneNode
                 THEN Text(parser, child_by_field_name(Enclosing(b)[k], "name"))
                          \o <<"::">>
                 ELSE <<>>])

\* the blocks whose methods a class record holds are written in different
\* classes
MergedAcrossClasses(r) ==
    \E a, b \in DOMAIN BlocksNamed(FullName(r)) :
        EnclosingNames(BlocksNamed(FullName(r))[a])
            # EnclosingNames(BlocksNamed(FullName(r))[b])

\* C23: the blocks a Ruby schema merges into one class record are blocks of
\* one class: they are written in the same enclosing classes and modules,
\* so two classes of one simple name nested in different classes keep
\* separate records.
C23_MergedBlocksShareEnclosingClasses ==
    RubyRead =>
        \A i \in DOMAIN out.val.classes : ~MergedAcrossClasses(out.val.classes[i])

-----------------------------------------------------------------------------
(* C24 *)

\* the 0-based positions of types that handle_negative_case reads for the
\* "-" at negative_index: the position after it and, when that one holds a
\* numeric literal, the position before it
NegativeCaseReads(tt, negative_index, numeric_literal_types) ==
    {negative_index + 1}
        \cup (IF /\ PyInRange(tt.types, negative_index + 1)
                 /\ PyAt(tt.types, negative_index + 1) \in numeric_literal_types
              THEN {negative_index - 1} ELSE {})

\* the reads of the loop of handle_negative_number from index i, each with
\* the length of types at the time of the read
RECURSIVE NegativeReadsFrom(_, _, _)
NegativeReadsFrom(tt, i, numeric_lteral_types) ==
    IF tt.exc # "" \/ i >= Len(tt.types) THEN {}
    ELSE (IF tt.types[i + 1] = "-"
          THEN {<<at, Len(tt.types)>> :
                    at \in NegativeCaseReads(tt, i, numeric_lteral_types)}
          ELSE {})
         \cup NegativeReadsFrom(
                  IF tt.types[i + 1] = "-"
                  THEN handle_negative_case(tt, i, numeric_lteral_types)
                  ELSE tt,
                  i + 1, numeric_lteral_types)

\* C24: every position of types that handle_negative_case reads exists: it
\* is at least 0 and below the length of types, so a "-" that is the last
\* token raises nothing and a "-" that is the first token is not judged by
\* the last token of the file.
C24_ReadsExistingPositions ==
    norm.pc = "merged" =>
        /\ norm.ret.exc = ""
        /\ \A rd \in NegativeReadsFrom(norm.tokens, 0, lang2lits[norm.lang][1]) :
               0 <= rd[1] /\ rd[1] < rd[2]

-----------------------------------------------------------------------------
(* C25 *)

\* the rounds of the loop that inspect the last character of the code
\* string: the token starts after a gap on the line the one before it
\* ended on (tree_sitter/__init__.py 739-740)
InspectsLastCharacter ==
    {i \in ConsecutivePairs : ~NoGap(i) /\ SameLine(i)}

\* C25: whenever norm_untokenize inspects the last character of the code
\* string the code string is not empty, and the token of that round is
\* appended without an exception, also when everything before it was
\* rendered as the empty text.
C25_BufferNonEmptyWhenInspected ==
    \A i \in InspectsLastCharacter :
        /\ norm.steps[i].code_string # <<>>
        /\ norm.steps[i + 1].exc = ""
        /\ EndsWith(norm.steps[i + 1].code_string, Rendering(i))

-----------------------------------------------------------------------------
(* C26 *)

\* normalize has returned for a call with preserve_statement enabled, in a
\* language it has literal types for, on code that is not empty and whose
\* tree can be walked
NormalizedStatements ==
    /\ norm.pc = "normalized"
    /\ norm.opt.preserve_statement
    /\ norm.lang \in DOMAIN lang2lits
    /\ norm.tree.kids # <<>>
    /\ ~HasDeep(norm.tree)
    /\ Encodable(norm.code)

\* C26: with preserve_statement enabled get_tokens completes in every
\* language normalize accepts, also in those without an entry in
\* lang2statements, and normalize returns text that is not empty unless a
\* later step of normalize raised.
C26_StatementsInEveryLanguage ==
    NormalizedStatements =>
        /\ get_tokens(norm.tree, NoTokens, TRUE, norm.lang).exc = ""
        /\ norm.tried.exc # "KeyError"
        /\ norm.tried.exc = "" => norm.ret.val # <<>>

-----------------------------------------------------------------------------
(* utils.tokenize (utils.py 41-91) *)

\* compound_lits (utils.py 61): a tuple of two strings, the first of which
\* holds a comma
compound_lits == {"concatenated_string, string_array", "chained_string"}

\* the nodes tokenize turns into tokens, in order: the loop over the
\* worklist that starts with node.children (utils.py 66-89)
RECURSIVE tokenize_nodes(_)
tokenize_nodes(nodes) ==
    IF nodes = <<>> THEN <<>>
    ELSE IF \/ Head(nodes).kids = <<>>
            \/ /\ TypeContains(Head(nodes).type, "string")
               /\ Head(nodes).type \notin compound_lits
            \/ TypeContains(Head(nodes).type, "char")
         THEN <<Head(nodes)>> \o tokenize_nodes(Tail(nodes))
    ELSE tokenize_nodes(Head(nodes).kids \o Tail(nodes))

\* tokenize(file_bytes, node, whitespace=False): the types, and the tokens
\* as the positions they start and end at
tokenize(node) ==
    [exc |-> "",
     tokens |-> [i \in DOMAIN tokenize_nodes(node.kids) |->
                    <<StartPoint(tokenize_nodes(node.kids)[i]),
                      EndPoint(tokenize_nodes(node.kids)[i])>>],
     types |-> [i \in DOMAIN tokenize_nodes(node.kids) |->
                   tokenize_nodes(node.kids)[i].type]]

-----------------------------------------------------------------------------
(* C27 *)

\* get_tokens has returned the tokens of a tree that is not empty, without
\* statement markers
CollectedTokens ==
    /\ norm.pc = "collected"
    /\ ~norm.opt.preserve_statement
    /\ norm.tokens.exc = ""
    /\ norm.tree.kids # <<>>

\* the tokens fraction_of_tokens_with_whitespace stops at, as positions
WhitespaceBoundaries(node) ==
    [i \in DOMAIN whitespace_tokens(node.kids) |->
        <<StartPoint(whitespace_tokens(node.kids)[i]),
          EndPoint(whitespace_tokens(node.kids)[i])>>]

\* a node of one of the composite string types, with children
CompositeStringNodes ==
    {n \in AllNodes(norm.tree) : n.type \in composite_strings /\ n.kids # <<>>}

\* a walker made a token of the node itself
IsToken(n, tokens) == \E i \in DOMAIN tokens : tokens[i] = <<StartPoint(n), EndPoint(n)>>

\* C27: on every tree, tokenize, get_tokens and the walk of
\* fraction_of_tokens_with_whitespace cut the same tokens with the same
\* types, and none of them makes one token of a concatenated_string, a
\* string_array or a chained_string.
C27_WalkersAgreeOnTokens ==
    CollectedTokens =>
        /\ tokenize(norm.tree).tokens = norm.tokens.tokens
        /\ tokenize(norm.tree).types = norm.tokens.types
        /\ WhitespaceBoundaries(norm.tree) = norm.tokens.tokens
        /\ \A n \in CompositeStringNodes :
               /\ ~IsToken(n, tokenize(norm.tree).tokens)
               /\ ~IsToken(n, WhitespaceBoundaries(norm.tree))
               /\ ~IsToken(n, norm.tokens.tokens)

-----------------------------------------------------------------------------
(* C28 *)

\* the points of the output: the code string after each round of the loop
\* of norm_untokenize with indentation tracking on
TrackedOutputs ==
    IF norm.pc # "untokenized" \/ ~norm.opt.indent THEN {}
    ELSE {norm.steps[i].code_string : i \in DOMAIN norm.steps}

\* C28: with indentation tracking on, at every point of the output the
\* dedent placeholders emitted so far are no more than the indent
\* placeholders emitted so far.
C28_DedentsWithinIndents ==
    \A code_string \in TrackedOutputs :
        CountAtom(code_string, "<DEDENT>") <= CountAtom(code_string, "<INDENT>")

-----------------------------------------------------------------------------
(* Specification SpecMethod: one call of RubyParser._parse_method_node on  *)
(* a method node of a Ruby file, the loop that widens the signature taken  *)
(* round by round                                                          *)

\* the nodes _parse_method_node is called on: the method nodes of the file
\* and the method nodes nested in them
MethodNodes(p) ==
    {n \in AllNodes(p.tree) : n.type \in Ruby_method_types /\ n.kids # <<>>}

\* self.span_select(*method_node.children[start_index:param_index + 1])
signature_span(p, method_node, param_index) ==
    span_select(p.file_bytes, Slice(method_node.kids, 0, param_index + 1), TRUE)

\* param_index += 2 (ruby_parser.py 269); an index at or past the last
\* child stands for every larger one: the slice of line 270 ends at the
\* last child for all of them
widened(method_node, param_index) ==
    IF param_index + 1 >= Len(method_node.kids) THEN param_index
    ELSE param_index + 2

NoMethod == [pc |-> "idle", method_node |-> <<>>, param_index |-> 0, sig |-> <<>>]

InitMethod ==
    /\ \E items \in Files("ruby") : parser = update(NewParser("ruby"), items)
    /\ pc = "method"
    /\ out = NoRead
    /\ prev = NoRead
    /\ files = <<>>
    /\ idx = 0
    /\ statistics = <<>>
    /\ results = <<>>
    /\ log = <<>>
    /\ norm = <<>>
    /\ literal_count = <<>>
    /\ method = NoMethod
    /\ dispatch = <<>>

\* _parse_method_node(method_node) up to the first test of the while loop
\* (ruby_parser.py 217-267)
ParseMethodNode ==
    /\ method.pc = "idle"
    /\ \E method_node \in MethodNodes(parser) :
           \E param_index \in {FirstIndexOfType(method_node.kids,
                                                "method_parameters", 1)} :
               method' = [pc |-> "looping",
                          method_node |-> method_node,
                          param_index |-> param_index,
                          sig |-> signature_span(parser, method_node, param_index)]
    /\ UNCHANGED <<parser, pc, out, prev, files, idx, statistics, results, log, norm, literal_count, dispatch>>

\* one round of the while loop (ruby_parser.py 268-270)
WidenSignature ==
    /\ method.pc = "looping"
    /\ Strip(method.sig) = <<"def", " ", "self">>
    /\ method' = [method EXCEPT
                      !.param_index = widened(method.method_node, @),
                      !.sig = signature_span(
                                  parser, method.method_node,
                                  widened(method.method_node, method.param_index))]
    /\ UNCHANGED <<parser, pc, out, prev, files, idx, statistics, results, log, norm, literal_count, dispatch>>

\* the rest of _parse_method_node once the loop has ended (ruby_parser.py
\* 271-297)
ReturnMethod ==
    /\ method.pc = "looping"
    /\ Strip(method.sig) # <<"def", " ", "self">>
    /\ method' = [method EXCEPT !.pc = "returned"]
    /\ out' = Ruby_parse_method_node(parser, method.method_node)
    /\ UNCHANGED <<parser, pc, prev, files, idx, statistics, results, log, norm, literal_count, dispatch>>

NextMethod == ParseMethodNode \/ WidenSignature \/ ReturnMethod

SpecMethod == InitMethod /\ [][NextMethod]_vars

\* the interpreter goes on executing the call
SpecMethodFair == SpecMethod /\ WF_vars(NextMethod)

\* the loop taken round by round ends with the signature the function
\* computes
MethodSignatureAgrees ==
    method.pc = "returned" =>
        /\ out.exc # "Hang"
        /\ out.exc = "" => out.val.signature = method.sig

-----------------------------------------------------------------------------
(* C29 *)

\* C29: every call of _parse_method_node that reaches the loop widening
\* the signature returns, also when the signature reads "def self" and
\* the node has no further children to add.
C29_ParseMethodNodeReturns ==
    (method.pc = "looping") ~> (method.pc = "returned")

-----------------------------------------------------------------------------
(* PipelineDispatch (cli/crawler.py 189-250). A task is named by its       *)
(* position in the task list; an object reference of the queue by the task *)
(* it was submitted for.                                                   *)

\* PipelineDispatch.__init__: tasks copied, result_id_queue empty;
\* submitted, finished and yielded record the calls of notify.remote, the
\* tasks the workers have finished and the results handed to the caller
NewDispatch(tasks) ==
    [pc |-> "created", tasks |-> tasks, result_id_queue |-> <<>>,
     num_workers |-> 0, submitted |-> <<>>, finished |-> {}, yielded |-> <<>>]

\* a warmup that takes num_workers as the count whatever its sign
warmup_count_as_given(tasks, num_workers) == Max(num_workers, 0)

\* PipelineDispatch.push
push(d) ==
    IF d.tasks # <<>>
    THEN [d EXCEPT !.result_id_queue = Append(@, Head(d.tasks)),
                   !.submitted = Append(@, Head(d.tasks)),
                   !.tasks = Tail(@)]
    ELSE d

\* the number of pushes of warmup: range(num_workers if num_workers > 0
\* else len(self.tasks))
warmup_count(tasks, num_workers) ==
    IF num_workers > 0 THEN num_workers ELSE Len(tasks)

RECURSIVE push_times(_, _)
push_times(d, count) ==
    IF count <= 0 THEN d ELSE push_times(push(d), count - 1)

\* PipelineDispatch.warmup
warmup(d, num_workers) == push_times(d, warmup_count(d.tasks, num_workers))

\* PipelineDispatch.pop with a non-empty queue: ray.wait hands back one
\* reference that is ready and the queue without it
pop(d, ready) ==
    [d EXCEPT !.result_id_queue = SelectSeq(@, LAMBDA t : t # ready)]

\* the references of the queue that ray.wait can hand back
ReadyIn(d) == {t \in Range(d.result_id_queue) : t \in d.finished}

-----------------------------------------------------------------------------
(* Specification SpecDispatch: Crawler.map creates a dispatcher on a task  *)
(* list, warms it up and iterates it, while the workers finish the tasks   *)
(* in flight in any order                                                  *)

TaskLists == {[i \in 1..k |-> i] : k \in 0..MaxTasks}

InitDispatch ==
    /\ \E tasks \in TaskLists : dispatch = NewDispatch(tasks)
    /\ parser = NewParser("python")
    /\ pc = "dispatch"
    /\ out = NoRead
    /\ prev = NoRead
    /\ files = <<>>
    /\ idx = 0
    /\ statistics = <<>>
    /\ results = <<>>
    /\ log = <<>>
    /\ norm = <<>>
    /\ literal_count = <<>>
    /\ method = <<>>

\* dispatch.warmup(num_workers)
Warmup ==
    /\ dispatch.pc = "created"
    /\ \E num_workers \in -1..MaxWorkers :
           dispatch' = [warmup(dispatch, num_workers) EXCEPT
                            !.pc = "warmed", !.num_workers = num_workers]
    /\ UNCHANGED <<parser, pc, out, prev, files, idx, statistics, results, log, norm, literal_count, method>>

\* a worker finishes the task of a reference in the queue
Finish ==
    /\ \E t \in Range(dispatch.result_id_queue) \ dispatch.finished :
           dispatch' = [dispatch EXCEPT !.finished = @ \cup {t}]
    /\ UNCHANGED <<parser, pc, out, prev, files, idx, statistics, results, log, norm, literal_count, method>>

\* a round of __iter__ that yields: pop hands back a ready reference, push
\* replaces the consumed task, the processing of the result is yielded
\* (cli/crawler.py 240-248); ray.wait blocks until a reference is ready
IterateYield ==
    /\ dispatch.pc = "warmed"
    /\ dispatch.result_id_queue # <<>>
    /\ \E ready \in ReadyIn(dispatch) :
           dispatch' = [push(pop(dispatch, ready)) EXCEPT
                            !.yielded = Append(@, ready)]
    /\ UNCHANGED <<parser, pc, out, prev, files, idx, statistics, results, log, norm, literal_count, method>>

\* the last round of __iter__: the queue is empty, pop returns [], push
\* runs, and the loop breaks (cli/crawler.py 240-241, 249-250)
IterateStop ==
    /\ dispatch.pc = "warmed"
    /\ dispatch.result_id_queue = <<>>
    /\ dispatch' = [push(dispatch) EXCEPT !.pc = "stopped"]
    /\ UNCHANGED <<parser, pc, out, prev, files, idx, statistics, results, log, norm, literal_count, method>>

NextDispatch == Warmup \/ Finish \/ IterateYield \/ IterateStop

SpecDispatch == InitDispatch /\ [][NextDispatch]_vars

\* Crawler.map calls warmup and then iterates to the end (cli/crawler.py
\* 383-385), and every worker finishes the task it was given
SpecDispatchFair ==
    /\ SpecDispatch
    /\ WF_vars(Warmup)
    /\ WF_vars(Finish)
    /\ WF_vars(IterateYield)
    /\ WF_vars(IterateStop)

-----------------------------------------------------------------------------
(* C30 *)

\* the tasks the dispatcher was created on
AllTasks ==
    Range(dispatch.tasks) \cup Range(dispatch.submitted)

NoRepeat(s) == \A i, j \in DOMAIN s : s[i] = s[j] => i = j

\* no task is submitted twice or yielded twice, and only the result of a
\* submitted task that a worker has finished is yielded
NoTaskTwice ==
    /\ NoRepeat(dispatch.submitted)
    /\ NoRepeat(dispatch.yielded)
    /\ Range(dispatch.yielded) \subseteq Range(dispatch.submitted)
    /\ Range(dispatch.yielded) \subseteq dispatch.finished

\* the iteration has stopped with every task submitted and yielded, none
\* pending and none in flight
StoppedComplete ==
    dispatch.pc = "stopped" =>
        /\ dispatch.tasks = <<>>
        /\ dispatch.result_id_queue = <<>>
        /\ Range(dispatch.yielded) = AllTasks
        /\ Len(dispatch.yielded) = Len(dispatch.submitted)

\* C30: after warmup(n) the iteration submits every task once and yields
\* one result per submitted task, it stops only when no task is pending
\* or in flight, and it does stop, for every n and every order in which
\* the workers finish.
C30_EveryTaskYieldedOnce ==
    /\ [](NoTaskTwice /\ StoppedComplete)
    /\ (dispatch.pc = "warmed") ~> (dispatch.pc = "stopped")

\* an iteration has stopped after a warmup that queued fewer tasks than
\* there are, and the results came in another order than the submissions
C30_Witness ==
    /\ dispatch.pc = "stopped"
    /\ dispatch.num_workers \in 1..(Len(dispatch.submitted) - 1)
    /\ Len(dispatch.yielded) = Len(dispatch.submitted)
    /\ dispatch.yielded # dispatch.submitted

====
